---- MODULE Spec2Model ----
(***************************************************************************)
(* Verification model of effect-llm's tool dispatch loop                   *)
(* (Generation.streamTools, src/src/generation.ts).                        *)
(*                                                                         *)
(* One run of streamTools is modelled together with every recursive call   *)
(* it makes.  A recursive call is always the last thing its caller does    *)
(* (the caller only forwards the nested stream's elements with             *)
(* Stream.runForEach(single) and then runs its own trailing end()), so the *)
(* callers are kept as a stack of frames naming the call site that is      *)
(* waiting, and the variables below hold the innermost call.               *)
(***************************************************************************)
EXTENDS Integers, Sequences, FiniteSets, TLC

VARIABLES
    callerMaxIterations, \* params.maxIterations of the caller's own call
    pc,            \* position of the innermost streamTools call
    frames,        \* call sites of the callers waiting on a nested stream
    maxIterations, \* params.maxIterations: <<>> when undefined, <<n>> otherwise
    events,        \* params.events of the innermost call (the thread)
    hasTruncate,   \* whether params.truncateEvents was supplied
    fnCalls,       \* the innermost call's recorded valid tool calls
    idx,           \* index into fnCalls of the call handleToolCalls runs next
    newEvents,     \* handleToolCalls' newEvents
    provider,      \* the innermost call's provider stream: idle, open, ...
    response,      \* events consumed so far of the latest provider response
    produced,      \* events the provider produced over the whole run
    sig,           \* terminal signal of the innermost call's stream
    out,           \* elements delivered by the top-level output stream
    term,          \* terminal signal of the top-level output stream
    providerCalls, \* number of provider.stream invocations of the run
    lastRequest,   \* events of the latest provider.stream request
    truncCalls,    \* number of truncateEvents invocations of the run
    handlerLog,    \* handler invocations, in order: [id, input, outcome]
    consumer,      \* the caller of the top-level stream: consuming, stopped
    inFlight,      \* provider responses of the run that are still being read
    \* One call of streamSSE (src/src/sse.ts), modelled on its own:
    sseKind,       \* which streamSSE: "queue" (Queue.unbounded), "push" (asyncPush)
    sseReader,     \* the fiber or register effect that reads the response bytes
    sseFed,        \* frames the parser has produced so far
    sseExit,       \* how the read of the response ended: none, success, a failure
    queue,         \* the hand-off queue between the parser and the frame stream
    sseShutdown,   \* whether the queue has been shut down
    sseFrames,     \* frames the frame stream has delivered to its consumer
    sseEnd,        \* terminal signal of the frame stream
    \* One call of provider.stream (src/src/providers), modelled on its own:
    vendor,        \* the provider called: Anthropic, OpenAI, Google
    defaultParams, \* the default parameters the provider was made with
    params,        \* the parameters of the call
    request,       \* the HTTP requests built and sent
    streamEnd,     \* terminal signal of the provider's stream
    wire,          \* the frames of the response read so far
    blocks,        \* Anthropic decoder: the content blocks started
    partialMessage,   \* OpenAI decoder: the text accumulated
    partialToolCalls, \* OpenAI decoder: the tool calls accumulated, by index
    emitted,       \* the stream events the decoder has emitted
    second         \* a second run of the provider's stream, when there is one

loopVars == <<callerMaxIterations, pc, frames, maxIterations, events,
              hasTruncate, fnCalls, idx, newEvents, provider, response,
              produced, sig, out, term, providerCalls, lastRequest,
              truncCalls, handlerLog, consumer, inFlight>>

sseVars == <<sseKind, sseReader, sseFed, sseExit, queue, sseShutdown,
             sseFrames, sseEnd>>

providerVars == <<vendor, defaultParams, params, request, streamEnd, wire,
                  blocks, partialMessage, partialToolCalls, emitted,
                  second>>

vars == <<loopVars, sseVars, providerVars>>

----------------------------------------------------------------------------
(* Bounds of the model. *)

\* largest maxIterations a caller passes
MaxIter == 2
\* provider events over a whole run (every response is finite)
MaxEvents == 3

----------------------------------------------------------------------------
(* Data. *)

Data(kind, of) == [kind |-> kind, of |-> of]

NoData == Data("none", "")

\* Stream events, tool results and loop markers share one record shape.
Ev(tag, id, name, data) == [tag |-> tag, id |-> id, name |-> name, data |-> data]

StreamLoop == Ev("StreamLoop", 0, "", NoData)

StreamLoopEnd == Ev("StreamLoopEnd", 0, "", NoData)

Content(text) == Ev("Content", 0, "", Data("text", text))

ToolCall(id, name, arguments) == Ev("ToolCall", id, name, Data("raw", arguments))

InvalidToolCall(id, name, arguments) ==
    Ev("InvalidToolCall", id, name, Data("raw", arguments))

ToolResultSuccess(id, name, result) == Ev("ToolResultSuccess", id, name, result)

ToolResultError(id, name, result) == Ev("ToolResultError", id, name, result)

UserMessage(text) == Ev("UserMessage", 0, "", Data("text", text))

\* A UserMessage of any number of text chunks.
UserMessageOf(chunks) == Ev("UserMessage", 0, "", Data("chunks", chunks))

AssistantMessage(text) == Ev("AssistantMessage", 0, "", Data("text", text))

SystemMessage(text) == Ev("SystemMessage", 0, "", Data("text", text))

ToolUseEvent(id, name, input) == Ev("ToolUseEvent", id, name, input)

ToolResultSuccessEvent(id, name, result) ==
    Ev("ToolResultSuccessEvent", id, name, result)

ToolResultErrorEvent(id, name, result) ==
    Ev("ToolResultErrorEvent", id, name, result)

\* Terminal signals of a stream.
Signal(kind, error, id, cause) ==
    [kind |-> kind, error |-> error, id |-> id, cause |-> cause]

NoSignal == Signal("none", "", 0, "")

End == Signal("end", "", 0, "")

Fail(error) == Signal("fail", error, 0, "")

MaxIterationsError == Fail("MaxIterationsError")

TruncateEventsError == Fail("TruncateEventsError")

\* new ToolExecutionError({ id, error })
ToolExecutionError(id, error) == Signal("fail", "ToolExecutionError", id, error)

\* new UnknownException(defect)
UnknownException(defect) == Signal("fail", "UnknownException", 0, defect)

ParseError == Fail("ParseError")

----------------------------------------------------------------------------
(* params.tools: "calc" declares an Effect schema as its input, "raw" a    *)
(* plain JSON schema (its input is not validated); the model may also ask  *)
(* for "ghost", which is not registered.                                   *)

SchemaTools == {"calc"}

JsonSchemaTools == {"raw"}

tools == SchemaTools \cup JsonSchemaTools

\* Argument strings a ToolCall may carry: "ok" is JSON accepted by calc's
\* schema, "bad" is JSON that calc's schema rejects, "mal" is not JSON.
Arguments == {"ok", "bad", "mal"}

WellFormed == {"ok", "bad"}


\* Tool calls the model may ask for.
ModelToolCalls ==
    (SchemaTools \X Arguments)
        \cup (JsonSchemaTools \X {"ok", "mal"})
        \cup ({"ghost"} \X {"ok", "mal"})

\* The id the vendor gives the next tool call: unique over the run.
NextToolCallId == providerCalls * (MaxEvents + 1) + Len(response) + 1

\* The events the provider's stream may produce next.
ProviderEvents ==
    {Content("a")}
        \cup {ToolCall(NextToolCallId, c[1], c[2]) : c \in ModelToolCalls}

\* Typed failures of provider.stream: a failure of the transport or of
\* the decoding of the response, and a required parameter that is missing.
ProviderFailures == {"HttpClientError", "MissingParameterError"}

\* What a tool handler's effect may do.
HandlerOutcomes ==
    {"success", "ToolError", "HaltToolLoopError", "InvalidToolCallError",
     "failure", "defect"}

----------------------------------------------------------------------------
(* Pure helpers of streamTools. *)

\* A budget check that only catches a budget already below zero.
BudgetExhaustedBelowZero(m) == m # <<>> /\ m[1] < 0

\* A budget check that stops the loop one iteration early, ahead of the
\* last request the budget allows.
BudgetExhaustedEarly(m) == m # <<>> /\ m[1] <= 1

\* params.maxIterations === 0
BudgetExhausted(m) == m = <<0>>

\* A recursion that passes the budget on unchanged.
DecrementForgotten(m) == m

\* params.maxIterations == null ? params.maxIterations : params.maxIterations - 1
Decrement(m) == IF m = <<>> THEN m ELSE <<m[1] - 1>>

\* Array.findFirst(params.tools ?? [], (fn) => fn.name === toolCall.name)
findFirst(name) == name \in tools

\* S.decodeUnknown(S.parseJson())(arguments): the decoded JSON value, or a
\* ParseError when the string is not JSON.
parseJson(arguments) ==
    IF arguments \in WellFormed
        THEN Data("json", arguments)
        ELSE Data("ParseError", arguments)

\* S.decodeUnknown(S.parseJson(schema))(arguments): the value typed by the
\* tool's schema, or a ParseError when the string is not JSON or the schema
\* rejects it.
parseJsonSchema(arguments) ==
    IF arguments = "ok"
        THEN Data("decoded", arguments)
        ELSE Data("ParseError", arguments)

\* A lookup that decodes the arguments of every registered tool as plain
\* JSON, whatever the tool declares as its input.
ClassifyUnvalidated(toolCall) ==
    IF ~findFirst(toolCall.name)
        THEN "UnknownToolCallError"
    ELSE IF parseJson(toolCall.data.of).kind = "ParseError"
        THEN "ParseError"
        ELSE "valid"

\* The ToolCall branch of onStreamEvent up to fnCalls.push: what the call
\* is found to be.
Classify(toolCall) ==
    IF ~findFirst(toolCall.name)
        THEN "UnknownToolCallError"
    ELSE IF toolCall.name \in SchemaTools
        THEN IF parseJsonSchema(toolCall.data.of).kind = "ParseError"
                THEN "InvalidToolCallError"
                ELSE "valid"
    ELSE IF parseJson(toolCall.data.of).kind = "ParseError"
        THEN "ParseError"
        ELSE "valid"

\* The input recorded in fnCalls for a valid call.
DecodedInput(toolCall) ==
    IF toolCall.name \in SchemaTools
        THEN parseJsonSchema(toolCall.data.of)
        ELSE parseJson(toolCall.data.of)

\* error.message of InvalidToolCallError / UnknownToolCallError
ErrorMessage(error, toolCall) ==
    IF error = "UnknownToolCallError"
        THEN Data("Unknown tool call", toolCall.name)
        ELSE Data("ParseError message", toolCall.data.of)

\* The caller's truncateEvents: this caller drops the oldest event.
truncateEvents(evs) == IF Len(evs) > 1 THEN Tail(evs) ELSE evs

\* The handler's return value and its ToolError payload.
HandlerResult(fnCall) == Data("output", fnCall.args)

HandlerPayload(fnCall) == Data("payload", fnCall.args)

\* The error of a handler that fails with an undeclared error, and the
\* defect of one that dies.
HandlerError == "boom"

HandlerDefect == "died"

----------------------------------------------------------------------------
(* The state after the caller has built the stream and starts to run it.   *)

\* No streamSSE call is being followed.
SSEIdle ==
    /\ sseKind = "none"
    /\ sseReader = "idle"
    /\ sseFed = 0
    /\ sseExit = "none"
    /\ queue = <<>>
    /\ sseShutdown = FALSE
    /\ sseFrames = <<>>
    /\ sseEnd = NoSignal

\* No provider.stream call is being followed.
ProviderIdle ==
    /\ vendor = "none"
    /\ defaultParams = <<>>
    /\ params = <<>>
    /\ request = <<>>
    /\ streamEnd = NoSignal
    /\ wire = <<>>
    /\ blocks = <<>>
    /\ partialMessage = <<>>
    /\ partialToolCalls = <<>>
    /\ emitted = <<>>
    /\ second = <<>>

\* A call of streamTools that has not started.
LoopInit ==
    /\ callerMaxIterations \in {<<>>} \cup {<<n>> : n \in 0..MaxIter}
    /\ maxIterations = callerMaxIterations
    /\ pc = "call"
    /\ frames = <<>>
    /\ events = <<UserMessage("hi")>>
    /\ hasTruncate \in BOOLEAN
    /\ fnCalls = <<>>
    /\ idx = 0
    /\ newEvents = <<>>
    /\ provider = "idle"
    /\ response = <<>>
    /\ produced = 0
    /\ sig = NoSignal
    /\ out = <<>>
    /\ term = NoSignal
    /\ providerCalls = 0
    /\ lastRequest = <<>>
    /\ truncCalls = 0
    /\ handlerLog = <<>>
    /\ consumer = "consuming"
    /\ inFlight = 0

\* No streamTools call is being followed.
LoopIdle ==
    /\ LoopInit
    /\ callerMaxIterations = <<>>
    /\ ~hasTruncate

Init ==
    /\ LoopInit
    /\ SSEIdle
    /\ ProviderIdle

----------------------------------------------------------------------------
(* Building blocks of the actions. *)

\* A reader forked as a daemon, outside every scope.
ReaderForkDaemon == "forkDaemon"

\* Effect.forkScoped(...) of streamSSE: how the fiber that reads the response
\* bytes is forked.
ReaderFork == "forkScoped"

\* A pipeline forked as a daemon, outside every scope.
LoopForkDaemon == "forkDaemon"

\* Effect.fork at the end of the pipeline: how the fiber that runs the loop
\* is forked.
LoopFork == "fork"

\* Whether a fiber forked with `kind` while a stream is run ends when that
\* run ends.  Running a stream opens a scope that is closed when the run
\* completes, fails or is interrupted: a forkScoped fiber is interrupted by
\* the scope, a fork child when the fiber running the stream ends.
EndsWithRun(kind) == kind \in {"fork", "forkScoped"}

\* The responses still being read once Stream.runForEach(onStreamEvent) has
\* failed on an event: the run of the provider's stream is over, and the
\* reader goes with it.
Abandoned(n) == IF EndsWithRun(ReaderFork) THEN n - 1 ELSE n

\* A single that loses the element.
singleDropped(stream, event) == stream

\* single(event) = Effect.promise(() => emit.single(event)): the element is
\* offered to the stream's queue, behind every element offered before it.
single(stream, event) == Append(stream, event)

\* emit.end() / emit.fail(error), or a failure of the register effect: the
\* innermost stream gets its terminal signal.  Only the first signal of a
\* stream counts, so the end() that trails the pipeline after one has been
\* emitted changes nothing.
Settle(s) ==
    /\ pc' = "settled"
    /\ sig' = s

\* A nested call that starts with the calls its caller recorded.
RecurseKeepingCalls(site, thread) ==
    /\ frames' = Append(frames, site)
    /\ events' = thread
    /\ maxIterations' = Decrement(maxIterations)
    /\ pc' = "call"
    /\ sig' = NoSignal
    /\ fnCalls' = fnCalls
    /\ idx' = 0
    /\ newEvents' = <<>>
    /\ provider' = "idle"

\* yield* streamTools(provider, {...params, events, maxIterations - 1})
\*     .pipe(Stream.runForEach(single))
\* The caller waits at `site`; the nested call starts with fresh locals.
Recurse(site, thread) ==
    /\ frames' = Append(frames, site)
    /\ events' = thread
    /\ maxIterations' = Decrement(maxIterations)
    /\ pc' = "call"
    /\ sig' = NoSignal
    /\ fnCalls' = <<>>
    /\ idx' = 0
    /\ newEvents' = <<>>
    /\ provider' = "idle"

\* A recursion that builds on the truncated thread.
NextThreadTruncated(thread, added) ==
    (IF Len(thread) > 1 THEN Tail(thread) ELSE thread) \o added

\* A recursion that asks with the new events alone.
NextThreadForgetful(thread, added) == added

\* [...params.events, ...newEvents] and [...params.events, failedToolCall,
\* failedToolResult]: the thread of the nested call is a new array, the
\* thread of this call followed by the events made in this iteration.
NextThread(thread, added) == thread \o added

\* A register effect that returns without a signal on an exhausted budget.
ExhaustedSignalMissing == NoSignal

\* The signal the register effect fails with when the budget is exhausted.
ExhaustedSignal == MaxIterationsError

\* onInvalidToolCall(error), entered from the catchIf handlers of the
\* pipeline: emit InvalidToolCall, decode the arguments as plain JSON, and
\* recurse with the failed call and its error result appended.  A ParseError
\* of the plain decode is a failure of the pipeline, which catchAll turns
\* into fail(error).  `seen` is the response as far as it was consumed.
onInvalidToolCall(error, toolCall, seen) ==
    /\ out' = single(out, InvalidToolCall(toolCall.id, toolCall.name,
                                           toolCall.data.of))
    /\ response' = seen
    /\ LET input == parseJson(toolCall.data.of)
       IN  IF input.kind = "ParseError"
               THEN /\ Settle(ParseError)
                    /\ provider' = IF provider = "open" THEN "abandoned"
                                                        ELSE provider
                    /\ UNCHANGED <<frames, events, maxIterations, fnCalls,
                                   idx, newEvents>>
               ELSE Recurse("onInvalidToolCall",
                        NextThread(events,
                          <<ToolUseEvent(toolCall.id, toolCall.name, input),
                            ToolResultErrorEvent(toolCall.id, toolCall.name,
                                ErrorMessage(error, toolCall))>>))

----------------------------------------------------------------------------
(* Actions. *)

\* The register effect of Stream.asyncEffect: the budget check, StreamLoop,
\* truncateEvents, and the fork of the pipeline that requests the provider.
\* When the register effect fails, Stream.asyncEffect fails the stream
\* without building its output channel, so the StreamLoop offered before a
\* failing truncateEvents is never delivered.
Register ==
    /\ pc = "call"
    /\ IF BudgetExhausted(maxIterations)
           THEN /\ Settle(ExhaustedSignal)
                /\ UNCHANGED <<out, truncCalls, providerCalls, lastRequest,
                               provider, response, inFlight>>
           ELSE \E truncated \in IF hasTruncate THEN {"ok", "fail"} ELSE {"none"} :
                    /\ truncCalls' = IF hasTruncate THEN truncCalls + 1
                                                   ELSE truncCalls
                    /\ IF truncated = "fail"
                           THEN /\ Settle(TruncateEventsError)
                                /\ UNCHANGED <<out, providerCalls, lastRequest,
                                               provider, response, inFlight>>
                           ELSE /\ out' = single(out, StreamLoop)
                                /\ lastRequest' =
                                       IF hasTruncate THEN truncateEvents(events)
                                                      ELSE events
                                /\ providerCalls' = providerCalls + 1
                                /\ inFlight' = inFlight + 1
                                /\ provider' = "open"
                                /\ response' = <<>>
                                /\ pc' = "stream"
                                /\ sig' = sig
    /\ UNCHANGED <<sseVars, providerVars>>
    /\ UNCHANGED <<callerMaxIterations, frames, maxIterations, events,
                   hasTruncate, fnCalls, idx, newEvents, produced, term,
                   handlerLog, consumer>>

\* Stream.runForEach(onStreamEvent) on the next event of the provider's
\* stream.  A ToolCall is looked up and decoded first: a failure there ends
\* the consumption of the response, and the event itself is not emitted.
OnStreamEvent ==
    /\ pc = "stream"
    /\ produced < MaxEvents
    /\ \E event \in ProviderEvents :
        /\ produced' = produced + 1
        /\ IF event.tag # "ToolCall"
               THEN /\ out' = single(out, event)
                    /\ response' = Append(response, event)
                    /\ UNCHANGED <<pc, sig, frames, events, maxIterations,
                                   fnCalls, idx, newEvents, provider, inFlight>>
           ELSE IF Classify(event) = "valid"
               THEN /\ fnCalls' = Append(fnCalls,
                            [id |-> event.id, name |-> event.name,
                             args |-> event.data.of,
                             input |-> DecodedInput(event)])
                    /\ out' = single(out, event)
                    /\ response' = Append(response, event)
                    /\ UNCHANGED <<pc, sig, frames, events, maxIterations,
                                   idx, newEvents, provider, inFlight>>
           ELSE IF Classify(event) = "ParseError"
               THEN /\ Settle(ParseError)
                    /\ provider' = "abandoned"
                    /\ inFlight' = Abandoned(inFlight)
                    /\ response' = Append(response, event)
                    /\ UNCHANGED <<out, frames, events, maxIterations,
                                   fnCalls, idx, newEvents>>
               ELSE /\ onInvalidToolCall(Classify(event), event,
                                         Append(response, event))
                    /\ inFlight' = Abandoned(inFlight)
    /\ UNCHANGED <<sseVars, providerVars>>
    /\ UNCHANGED <<callerMaxIterations, hasTruncate, term, providerCalls,
                   lastRequest, truncCalls, handlerLog, consumer>>

\* The provider's stream fails: catchAll turns the failure into fail(error).
\* The parameters are the same in every call of the loop, and a provider
\* checks them before it sends anything: a MissingParameterError is the
\* failure of the first call, ahead of every event.
ProviderFails ==
    /\ pc = "stream"
    /\ \E failure \in ProviderFailures :
           /\ failure = "MissingParameterError" =>
                  providerCalls = 1 /\ response = <<>>
           /\ vendor # "none" => streamEnd.error = failure
           /\ Settle(IF vendor = "none" THEN Fail(failure) ELSE streamEnd)
    /\ provider' = "failed"
    /\ inFlight' = inFlight - 1
    /\ UNCHANGED <<sseVars, providerVars>>
    /\ UNCHANGED <<callerMaxIterations, frames, maxIterations, events,
                   hasTruncate, fnCalls, idx, newEvents, response, produced,
                   out, term, providerCalls, lastRequest, truncCalls,
                   handlerLog, consumer>>

\* A pipeline that emits no marker when the provider's stream ends.
EndOfResponseUnmarked == <<>>

\* Effect.andThen(() => single(StreamLoopEnd())): what the pipeline emits
\* when the provider's stream ends.
EndOfResponse == <<StreamLoopEnd>>

\* The provider's stream ends: emit StreamLoopEnd and enter handleToolCalls,
\* which ends the stream when no call was recorded.
StreamComplete ==
    /\ pc = "stream"
    /\ vendor # "none" => request # <<>>
    /\ provider' = "complete"
    /\ inFlight' = inFlight - 1
    /\ out' = out \o EndOfResponse
    /\ IF Len(fnCalls) = 0
           THEN /\ Settle(End)
                /\ UNCHANGED idx
           ELSE /\ pc' = "tools"
                /\ idx' = 1
                /\ sig' = sig
    /\ UNCHANGED <<sseVars, providerVars>>
    /\ UNCHANGED <<callerMaxIterations, frames, maxIterations, events,
                   hasTruncate, fnCalls, newEvents, response, produced, term,
                   providerCalls, lastRequest, truncCalls, handlerLog,
                   consumer>>

\* A catchAll that wraps every failure of the handler, the halt signal
\* included, in a ToolExecutionError.
HandlerFailureWrapsAll(outcome) == "ToolExecutionError"

\* A catchAll that lets every failure but InvalidToolCallError pass as the
\* halt signal.
HandlerFailureHaltsAll(outcome) ==
    IF outcome = "InvalidToolCallError" THEN "InvalidToolCallError"
    ELSE "HaltToolLoopError"

\* Effect.catchAll((error) => Effect.fail(...)) around the handler's effect:
\* the failure handleToolCalls raises for a handler failure that is not a
\* ToolError.  InvalidToolCallError and HaltToolLoopError pass unchanged,
\* every other failure is wrapped in a ToolExecutionError.
HandlerFailure(outcome) ==
    IF outcome = "InvalidToolCallError" THEN "InvalidToolCallError"
    ELSE IF outcome = "HaltToolLoopError" THEN "HaltToolLoopError"
    ELSE "ToolExecutionError"

\* A loop that pushes the ToolUseEvent but forgets the result event.
ResultPairWithoutResult(fnCall, outcome) ==
    <<ToolUseEvent(fnCall.id, fnCall.name, fnCall.input)>>

\* A loop that pushes the result event ahead of its ToolUseEvent.
ResultPairSwapped(fnCall, outcome) ==
    <<ToolResultSuccessEvent(fnCall.id, fnCall.name, HandlerResult(fnCall)),
      ToolUseEvent(fnCall.id, fnCall.name, fnCall.input)>>

\* The ToolUseEvent / result pair handleToolCalls pushes for a handler that
\* returned (Either.right) or failed with a ToolError (Either.left).
ResultPair(fnCall, outcome) ==
    <<ToolUseEvent(fnCall.id, fnCall.name, fnCall.input),
      IF outcome = "success"
          THEN ToolResultSuccessEvent(fnCall.id, fnCall.name,
                                      HandlerResult(fnCall))
          ELSE ToolResultErrorEvent(fnCall.id, fnCall.name,
                                    HandlerPayload(fnCall))>>

\* The ToolResult element emitted for the same handler outcome.
ResultElement(fnCall, outcome) ==
    IF outcome = "success"
        THEN ToolResultSuccess(fnCall.id, fnCall.name, HandlerResult(fnCall))
        ELSE ToolResultError(fnCall.id, fnCall.name, HandlerPayload(fnCall))

\* A loop that walks the recorded calls from the last to the first.
NextCallReversed(calls, i) == calls[Len(calls) + 1 - i]

\* The call the for loop of handleToolCalls takes next.
NextCall(calls, i) == calls[i]

\* The for loop of handleToolCalls starts the handler of the next call:
\* fnCall.fnDefn.effect(fnCall.id, fnCall.input).
StartHandler ==
    /\ pc = "tools"
    /\ pc' = "handler"
    /\ LET fnCall == NextCall(fnCalls, idx)
       IN  handlerLog' = Append(handlerLog,
               [id |-> fnCall.id, input |-> fnCall.input,
                outcome |-> "running"])
    /\ UNCHANGED <<sseVars, providerVars>>
    /\ UNCHANGED <<callerMaxIterations, frames, maxIterations, events,
                   hasTruncate, fnCalls, idx, newEvents, provider, response,
                   produced, sig, out, term, providerCalls, lastRequest,
                   truncCalls, consumer, inFlight>>

\* The handler's effect completes and handleToolCalls acts on its outcome.
\* After the last call of the batch the loop recurses with the extended
\* thread.
HandlerDone ==
    /\ pc = "handler"
    /\ \E outcome \in HandlerOutcomes :
        LET fnCall == NextCall(fnCalls, idx)
            pushed == newEvents \o ResultPair(fnCall, outcome)
        IN  /\ handlerLog' = [handlerLog EXCEPT
                                 ![Len(handlerLog)].outcome = outcome]
            /\ IF outcome \in {"success", "ToolError"}
                   THEN /\ out' = single(out, ResultElement(fnCall, outcome))
                        /\ IF idx < Len(fnCalls)
                               THEN /\ idx' = idx + 1
                                    /\ newEvents' = pushed
                                    /\ pc' = "tools"
                                    /\ UNCHANGED <<sig, frames, events,
                                                   maxIterations, fnCalls,
                                                   provider, response>>
                           ELSE IF Len(pushed) = 0
                               THEN /\ Settle(End)
                                    /\ UNCHANGED <<frames, events,
                                                   maxIterations, fnCalls, idx,
                                                   newEvents, provider,
                                                   response>>
                               ELSE /\ Recurse("handleToolCalls",
                                                NextThread(events, pushed))
                                    /\ UNCHANGED response
               ELSE IF outcome = "defect"
                   THEN /\ Settle(UnknownException(HandlerDefect))
                        /\ UNCHANGED <<out, frames, events, maxIterations,
                                       fnCalls, idx, newEvents, provider,
                                       response>>
               ELSE IF HandlerFailure(outcome) = "InvalidToolCallError"
                   THEN onInvalidToolCall("InvalidToolCallError",
                            ToolCall(fnCall.id, fnCall.name, fnCall.args),
                            response)
               ELSE IF HandlerFailure(outcome) = "HaltToolLoopError"
                   THEN /\ Settle(End)
                        /\ UNCHANGED <<out, frames, events, maxIterations,
                                       fnCalls, idx, newEvents, provider,
                                       response>>
               ELSE /\ Settle(ToolExecutionError(fnCall.id, HandlerError))
                    /\ UNCHANGED <<out, frames, events, maxIterations,
                                   fnCalls, idx, newEvents, provider,
                                   response>>
    /\ UNCHANGED <<sseVars, providerVars>>
    /\ UNCHANGED <<callerMaxIterations, hasTruncate, produced, term,
                   providerCalls, lastRequest, truncCalls, consumer, inFlight>>

\* A caller that ends normally whatever the nested stream ended with.
PropagateSwallows(site, s) == End

\* A caller that reports the failure of the nested stream as a defect.
PropagateAsDefect(site, s) ==
    IF s.kind = "fail" THEN UnknownException(s.error) ELSE End

\* What a caller waiting in Stream.runForEach(single) at `site` makes of the
\* nested stream's terminal signal: a failure fails runForEach and reaches
\* catchAll -> fail(error); an end lets the caller run on to the trailing
\* end() of its pipeline.
Propagate(site, s) == IF s.kind = "fail" THEN s ELSE End

\* The terminal signal the outermost stream ends with once the innermost
\* one has ended with s: every waiting caller, innermost first, terminates
\* in turn.
RECURSIVE Unwind(_, _)
Unwind(callers, s) ==
    IF callers = <<>>
        THEN s
        ELSE Unwind(SubSeq(callers, 1, Len(callers) - 1),
                    Propagate(callers[Len(callers)], s))

\* The innermost stream has terminated: the callers unwind and the
\* top-level stream delivers its terminal signal to the consumer.
Terminate ==
    /\ pc = "settled"
    /\ sig # NoSignal
    /\ pc' = "done"
    /\ term' = Unwind(frames, sig)
    /\ UNCHANGED <<sseVars, providerVars>>
    /\ UNCHANGED <<callerMaxIterations, frames, maxIterations, events,
                   hasTruncate, fnCalls, idx, newEvents, provider, response,
                   produced, sig, out, providerCalls, lastRequest, truncCalls,
                   handlerLog, consumer, inFlight>>

\* The caller stops consuming the top-level stream: the run of the stream
\* ends and its scope is closed.  The fiber that runs the stream ends, and
\* with it the forked pipeline; the pipeline is interrupted inside the run
\* of the provider's stream or of the nested streamTools stream, which ends
\* in turn, down to the innermost call, its handler and its reader.
Cancel ==
    /\ consumer = "consuming"
    /\ pc \notin {"done", "interrupted"}
    /\ consumer' = "stopped"
    /\ LET interrupted == EndsWithRun(LoopFork)
       IN  /\ pc' = IF interrupted THEN "interrupted" ELSE pc
           /\ provider' = IF interrupted /\ provider = "open"
                              THEN "interrupted" ELSE provider
           /\ inFlight' = IF interrupted /\ EndsWithRun(ReaderFork)
                              THEN 0 ELSE inFlight
           /\ handlerLog' =
                  IF interrupted /\ pc = "handler"
                      THEN [handlerLog EXCEPT
                               ![Len(handlerLog)].outcome = "interrupted"]
                      ELSE handlerLog
    /\ UNCHANGED <<sseVars, providerVars>>
    /\ UNCHANGED <<callerMaxIterations, frames, maxIterations, events,
                   hasTruncate, fnCalls, idx, newEvents, response, produced,
                   sig, out, term, providerCalls, lastRequest, truncCalls>>

Next ==
    \/ Register
    \/ OnStreamEvent
    \/ ProviderFails
    \/ StreamComplete
    \/ StartHandler
    \/ HandlerDone
    \/ Terminate

Spec == Init /\ [][Next]_vars

\* The forked pipeline, the handlers and the consumer are fibers the Effect
\* runtime keeps scheduling, and every response and handler terminates:
\* each enabled step is eventually taken.
FairSpec == Spec /\ WF_vars(Next)

\* The runs of a caller that passes no truncateEvents and may stop
\* consuming at any point.
CancelInit == Init /\ ~hasTruncate

CancelNext == Next \/ Cancel

CancelSpec == CancelInit /\ [][CancelNext]_vars

----------------------------------------------------------------------------
(* streamSSE (src/src/sse.ts): the frames of one response.  The bytes of   *)
(* the response are read chunk by chunk and fed to the parser, whose       *)
(* callback offers each frame to a queue; the frame stream takes from the  *)
(* queue.  Frames are numbered 1, 2, ... in the order of the response.     *)

\* Most frames a response holds.
MaxFrames == 3

\* How the read of the response can fail: HttpClientResponse.stream fails
\* with a ResponseError, or the read dies with a defect.
ResponseFailures == {"ResponseError", "defect"}

\* SSEQueueEvent.Event({ event }), SSEQueueEvent.Error({ error }); the
\* asyncPush variant marks the end of the frames by an Exit in the queue.
SSEQueueEvent(tag, event, error) ==
    [tag |-> tag, event |-> event, error |-> error]

QueueEvent(event) == SSEQueueEvent("Event", event, NoSignal)

QueueError(error) == SSEQueueEvent("Error", 0, error)

QueueExit == SSEQueueEvent("Exit", 0, End)

\* A stream that dies with a defect.
Die(defect) == Signal("die", "", 0, defect)

\* queue.unsafeOffer(item): a queue that was shut down takes nothing.
unsafeOffer(q, shutdown, item) ==
    IF shutdown THEN q ELSE Append(q, item)

\* parser.feed(chunk) for a chunk that completes the frames from + 1 ..
\* from + k: the parser calls its callback once per frame, in order.
RECURSIVE feed(_, _, _, _)
feed(q, shutdown, from, k) ==
    IF k = 0
        THEN q
        ELSE feed(unsafeOffer(q, shutdown, QueueEvent(from + 1)), shutdown,
                  from + 1, k - 1)

\* What the fiber observer offers for the exit of the reader (sse.ts 72-90).
ObserverOffer(exit) ==
    CASE exit = "ResponseError" -> <<QueueError(Fail("ResponseError"))>>
      [] exit = "defect" -> <<QueueError(UnknownException("defect"))>>
      [] OTHER -> <<>>

\* Position of the first Error in a chunk taken from the queue, 0 if none.
FirstError(chunk) ==
    IF \E i \in 1..Len(chunk) : chunk[i].tag = "Error"
        THEN CHOOSE i \in 1..Len(chunk) :
                 /\ chunk[i].tag = "Error"
                 /\ \A j \in 1..(i - 1) : chunk[j].tag # "Error"
        ELSE 0

\* The events of the Event items of a chunk.
EventsOf(chunk) == [i \in 1..Len(chunk) |-> chunk[i].event]

SSEInit ==
    /\ LoopIdle
    /\ ProviderIdle
    /\ sseKind \in {"queue", "push"}
    /\ sseReader = "running"
    /\ sseFed = 0
    /\ sseExit = "none"
    /\ queue = <<>>
    /\ sseShutdown = FALSE
    /\ sseFrames = <<>>
    /\ sseEnd = NoSignal

\* The reader takes one chunk of the response, which completes k frames,
\* and feeds it to the parser (sse.ts 63-67 and 19).
ReaderFeeds ==
    /\ sseReader = "running"
    /\ sseFed < MaxFrames
    /\ \E k \in 1..(MaxFrames - sseFed) :
           /\ queue' = feed(queue, sseShutdown, sseFed, k)
           /\ sseFed' = sseFed + k
    /\ UNCHANGED <<sseKind, sseReader, sseExit, sseShutdown, sseFrames,
                   sseEnd>>
    /\ UNCHANGED <<loopVars, providerVars>>

\* Queue variant: the forked reader ends, normally or with a failure.
\* Effect.ensuring(queue.shutdown) is part of the forked effect and runs
\* before the fiber exits (sse.ts 59-70).
ReaderExits ==
    /\ sseKind = "queue"
    /\ sseReader = "running"
    /\ \E exit \in {"success"} \cup ResponseFailures : sseExit' = exit
    /\ sseShutdown' = TRUE
    /\ sseReader' = "exited"
    /\ UNCHANGED <<sseKind, sseFed, queue, sseFrames, sseEnd>>
    /\ UNCHANGED <<loopVars, providerVars>>

\* Queue variant: the observer of the reader's fiber sees its exit and
\* offers the failure to the queue (sse.ts 72-90).
Observer ==
    /\ sseKind = "queue"
    /\ sseReader = "exited"
    /\ LET offer == ObserverOffer(sseExit)
       IN  queue' = IF offer = <<>>
                        THEN queue
                        ELSE unsafeOffer(queue, sseShutdown, offer[1])
    /\ sseReader' = "done"
    /\ UNCHANGED <<sseKind, sseFed, sseExit, sseShutdown, sseFrames, sseEnd>>
    /\ UNCHANGED <<loopVars, providerVars>>

\* asyncPush variant: the register effect ends (sse.ts 12-22).  After the
\* last chunk it calls emit.end(); when the read fails the register effect
\* fails, the stream fails with its cause before any frame is delivered,
\* and the queue is released.
RegisterExits ==
    /\ sseKind = "push"
    /\ sseReader = "running"
    /\ \E exit \in {"success"} \cup ResponseFailures :
           /\ sseExit' = exit
           /\ queue' = IF exit = "success"
                           THEN unsafeOffer(queue, sseShutdown, QueueExit)
                           ELSE queue
           /\ sseShutdown' = (exit # "success")
           /\ sseEnd' = CASE exit = "success" -> NoSignal
                           [] exit = "ResponseError" -> Fail("ResponseError")
                           [] exit = "defect" -> Die("defect")
    /\ sseReader' = "done"
    /\ UNCHANGED <<sseKind, sseFed, sseFrames>>
    /\ UNCHANGED <<loopVars, providerVars>>

\* Queue variant: the frame stream pulls (Stream.fromQueue, sse.ts 99-101).
\* A take from a queue that was shut down is interrupted and the stream
\* ends; otherwise the take returns everything queued, and mapQueueEvent
\* delivers the events up to the first Error, which fails the stream.
Take ==
    /\ sseKind = "queue"
    /\ sseEnd = NoSignal
    /\ IF sseShutdown
           THEN /\ sseEnd' = End
                /\ UNCHANGED <<queue, sseFrames, sseShutdown>>
           ELSE /\ queue # <<>>
                /\ queue' = <<>>
                /\ LET n == FirstError(queue)
                   IN  IF n = 0
                           THEN /\ sseFrames' = sseFrames \o EventsOf(queue)
                                /\ UNCHANGED <<sseEnd, sseShutdown>>
                           ELSE /\ sseFrames' = sseFrames \o
                                       EventsOf(SubSeq(queue, 1, n - 1))
                                /\ sseEnd' = queue[n].error
                                /\ sseShutdown' = TRUE
    /\ UNCHANGED <<sseKind, sseReader, sseFed, sseExit>>
    /\ UNCHANGED <<loopVars, providerVars>>

\* asyncPush variant: once the register effect has succeeded the stream
\* takes the queued items one by one, delivers the frames and ends at the
\* Exit.
PushTake ==
    /\ sseKind = "push"
    /\ sseReader = "done"
    /\ sseEnd = NoSignal
    /\ queue # <<>>
    /\ queue' = Tail(queue)
    /\ IF Head(queue).tag = "Exit"
           THEN /\ sseEnd' = End
                /\ sseShutdown' = TRUE
                /\ UNCHANGED sseFrames
           ELSE /\ sseFrames' = Append(sseFrames, Head(queue).event)
                /\ UNCHANGED <<sseEnd, sseShutdown>>
    /\ UNCHANGED <<sseKind, sseReader, sseFed, sseExit>>
    /\ UNCHANGED <<loopVars, providerVars>>

SSENext ==
    \/ ReaderFeeds
    \/ ReaderExits
    \/ Observer
    \/ RegisterExits
    \/ Take
    \/ PushTake

SSESpec == SSEInit /\ [][SSENext]_vars

----------------------------------------------------------------------------
(* provider.stream (src/src/providers): one call made by the first         *)
(* iteration of the loop to the Anthropic, OpenAI or Google provider.      *)

Vendors == {"Anthropic", "OpenAI", "Google"}

\* The parameters every provider requires.
Required == {"apiKey", "model"}

\* A key an object does not have.
Absent == "absent"

\* new MissingParameterError({ parameter })
MissingParameterError(parameter) ==
    Signal("fail", "MissingParameterError", 0, parameter)

\* A merge that ignores the parameters of the call.
mergeParamsDefaultsOnly(a, b) == a

\* A merge that ignores the defaults of the provider.
mergeParamsCallOnly(a, b) == b

\* mergeParams(a, b) = { ...a, ...b }: a key of b replaces the same key of a.
mergeParams(a, b) ==
    [k \in DOMAIN a \cup DOMAIN b |->
        IF k \in DOMAIN b /\ b[k] # Absent THEN b[k]
        ELSE IF k \in DOMAIN a THEN a[k]
        ELSE Absent]

\* Effect.fromNullable(value) fails when the value is null or undefined.
fromNullable(value) == value # Absent

ProviderInit ==
    /\ LoopIdle
    /\ SSEIdle
    /\ vendor \in Vendors
    /\ defaultParams \in [Required -> {Absent, "default"}]
    /\ params \in [Required -> {Absent, "call"}]
    /\ request = <<>>
    /\ streamEnd = NoSignal
    /\ wire = <<>>
    /\ blocks = <<>>
    /\ partialMessage = <<>>
    /\ partialToolCalls = <<>>
    /\ emitted = <<>>
    /\ second = <<>>

\* The stream returned by provider.stream is run: the parameters are merged
\* and checked, apiKey first, and only then is the request built and sent.
stream ==
    /\ vendor # "none"
    /\ pc = "stream"
    /\ request = <<>>
    /\ streamEnd = NoSignal
    /\ LET merged == mergeParams(defaultParams, params)
       IN  IF ~fromNullable(merged["apiKey"])
               THEN /\ streamEnd' = MissingParameterError("apiKey")
                    /\ UNCHANGED request
           ELSE IF ~fromNullable(merged["model"])
               THEN /\ streamEnd' = MissingParameterError("model")
                    /\ UNCHANGED request
           ELSE /\ request' = <<merged>>
                /\ UNCHANGED streamEnd
    /\ UNCHANGED <<second, vendor, defaultParams, params, wire, blocks,
                   partialMessage, partialToolCalls, emitted>>
    /\ UNCHANGED <<loopVars, sseVars>>

\* The calls the loop's first iteration makes to a provider whose
\* parameters may be missing, and what the loop makes of the outcome when
\* the response holds no event.
ProviderNext ==
    \/ Register
    \/ stream
    \/ ProviderFails
    \/ StreamComplete
    \/ Terminate

ProviderSpec == ProviderInit /\ [][ProviderNext]_vars

\* DefaultParams (src/src/providers/index.ts 20-30) may hold maxIterations:
\* the defaults a provider was made with, with a budget or without one.
DefaultBudgets == {Absent, "0", "1"}

\* The parameters streamTools passes to provider.stream, { ...params,
\* events }: its own params, whose maxIterations is m.  The values of the
\* parameters are written as strings.
StreamParams(m) ==
    [apiKey |-> "call", model |-> "call",
     maxIterations |-> IF m = <<>> THEN Absent ELSE ToString(m[1])]

\* A caller that passes no truncateEvents runs streamTools on a provider
\* made with defaults that may hold a budget.
BudgetInit ==
    /\ LoopInit
    /\ ~hasTruncate
    /\ SSEIdle
    /\ vendor = "Anthropic"
    /\ defaultParams \in
           {[apiKey |-> "default", model |-> "default", maxIterations |-> d] :
                d \in DefaultBudgets}
    /\ params = StreamParams(callerMaxIterations)
    /\ request = <<>>
    /\ streamEnd = NoSignal
    /\ wire = <<>>
    /\ blocks = <<>>
    /\ partialMessage = <<>>
    /\ partialToolCalls = <<>>
    /\ emitted = <<>>
    /\ second = <<>>

\* The loop on that provider: the first call of provider.stream merges the
\* parameters (stream), and the provider answers every request.
BudgetNext ==
    \/ Register
    \/ stream
    \/ OnStreamEvent
    \/ StreamComplete
    \/ StartHandler
    \/ HandlerDone
    \/ Terminate

BudgetSpec == BudgetInit /\ [][BudgetNext]_vars

----------------------------------------------------------------------------
(* The decoders: the frames of one response, read after the request was    *)
(* sent, and the stream events each provider makes of them.  Text is a     *)
(* sequence of characters; the character a frame may add is numbered by    *)
(* the frame's position in the response, so that a concatenation in the    *)
(* wrong order or from the wrong block shows.                              *)

\* Most frames a response holds.
MaxWire == 5
\* Most content blocks (Anthropic) or tool calls (OpenAI) of a response.
MaxBlocks == 2

Some(x) == <<x>>

None == <<>>

\* The text a frame at position n may carry: nothing, or one character.
Fragments(n) == {<<>>, <<n>>}

RECURSIVE Concat(_)
Concat(fragments) ==
    IF fragments = <<>>
        THEN <<>>
        ELSE Head(fragments) \o Concat(Tail(fragments))

ContentStart == Ev("ContentStart", 0, "", Data("text", <<>>))

Message(content) == Ev("Message", 0, "", Data("text", content))

ToolCallStart(id, name) == Ev("ToolCallStart", id, name, NoData)

Stats == Ev("Stats", 0, "", NoData)

\* Frame data that is not JSON, and JSON of a shape the vendor's schema
\* does not list (Anthropic's error and ping events are of this kind).
BadFrames == {"not JSON", "other shape"}

\* One frame of a response.  Anthropic: type, index, kind (the type of the
\* content block or of the delta), id, name, text.
Frame(type, index, kind, id, name, text) ==
    [type |-> type, index |-> index, kind |-> kind, id |-> id,
     name |-> name, text |-> text]

BadFrame(bad) == Frame(bad, 0, "", 0, "", <<>>)

IsBad(frame) == frame.type \in BadFrames

ContentBlockStart(index, kind, id, name) ==
    Frame("content_block_start", index, kind, id, name, <<>>)

ContentBlockDelta(index, kind, text) ==
    Frame("content_block_delta", index, kind, 0, "", text)

ContentBlockStop(index) == Frame("content_block_stop", index, "", 0, "", <<>>)

\* The frames whose type is t.
OfType(w, t) == SelectSeq(w, LAMBDA f : f.type = t)

\* The indexes of the blocks a response has started, and has stopped.
Started(w) ==
    {w[i].index : i \in {j \in 1..Len(w) : w[j].type = "content_block_start"}}

Stopped(w) ==
    {w[i].index : i \in {j \in 1..Len(w) : w[j].type = "content_block_stop"}}

\* The kind of delta a block of the given kind takes.
DeltaOf(kind) == IF kind = "text" THEN "text_delta" ELSE "input_json_delta"

\* The content_block_start frame of the block with the given index.
StartOf(w, index) ==
    CHOOSE f \in {w[i] : i \in 1..Len(w)} :
        f.type = "content_block_start" /\ f.index = index

\* The frames Anthropic may send next: a new block under the next index,
\* a delta or the stop of a block that is open, or a frame the schema does
\* not decode.  Tool-use ids are unique in a response.
AnthropicFrames(w) ==
    (IF Cardinality(Started(w)) < MaxBlocks
         THEN LET index == Cardinality(Started(w))
              IN  {ContentBlockStart(index, "text", 0, ""),
                   ContentBlockStart(index, "tool_use", index + 1, "calc")}
         ELSE {})
    \cup {ContentBlockDelta(index, DeltaOf(StartOf(w, index).kind), text) :
              index \in Started(w) \ Stopped(w),
              text \in Fragments(Len(w) + 1)}
    \cup {ContentBlockStop(index) : index \in Started(w) \ Stopped(w)}
    \cup (IF \E i \in 1..Len(w) : IsBad(w[i])
              THEN {}
              ELSE {BadFrame(bad) : bad \in BadFrames})

\* The event types of the AnthropicStreamEvent union.
AnthropicStreamEvent ==
    {"message_start", "message_delta", "content_block_start",
     "content_block_delta", "content_block_stop"}

\* A decoder that takes every frame for an event of the union.
decodeEventOfAny(frame) == Some(frame)

\* S.decodeUnknownOption(AnthropicStreamEvent)(e.data): none for data that
\* is not JSON or matches no member of the union.
decodeEvent(frame) ==
    IF frame.type \in AnthropicStreamEvent THEN Some(frame) ELSE None

\* A block of the Anthropic decoder: `text` is the text of a text block
\* and the input of a toolUse block.
Block(type, index, id, name, text) ==
    [type |-> type, index |-> index, id |-> id, name |-> name, text |-> text]

\* Array.findFirst(blocks, (s) => s.index === index && s.type === type) as
\* a position, 0 when there is none; blocks.find((b) => b.index === index)
\* when type is "any".
findBlock(bs, index, type) ==
    LET found == {i \in 1..Len(bs) :
                     /\ bs[i].index = index
                     /\ type \in {"any", bs[i].type}}
    IN  IF found = {} THEN 0
        ELSE CHOOSE i \in found : \A j \in found : i <= j

Decoded(bs, evs, thrown) ==
    [blocks |-> bs, events |-> evs, thrown |-> thrown]

\* A decoder that appends every fragment to the first block.
AppendToFirst(bs, at, text) == [bs EXCEPT ![1].text = @ \o text]

\* block.text += text, block.toolUse.input += partial_json
AppendTo(bs, at, text) == [bs EXCEPT ![at].text = @ \o text]

\* The function given to Stream.mapConcat by the Anthropic provider: the
\* blocks after the event, the stream events it returns, and whether it
\* throws for want of a block.
anthropicEvents(bs, event) ==
    IF event.type = "content_block_start"
        THEN IF event.kind = "text"
                 THEN Decoded(Append(bs, Block("text", event.index, 0, "",
                                                 <<>>)),
                              <<ContentStart>>, FALSE)
                 ELSE Decoded(Append(bs, Block("toolUse", event.index,
                                                 event.id, event.name, <<>>)),
                              <<ToolCallStart(event.id, event.name)>>, FALSE)
    ELSE IF event.type = "content_block_delta"
        THEN LET type == IF event.kind = "text_delta" THEN "text"
                                                      ELSE "toolUse"
                 at == findBlock(bs, event.index, type)
             IN  IF at = 0 THEN Decoded(bs, <<>>, TRUE)
                 ELSE Decoded(AppendTo(bs, at, event.text),
                              IF type = "text" THEN <<Content(event.text)>>
                                               ELSE <<>>,
                              FALSE)
    ELSE IF event.type = "content_block_stop"
        THEN LET at == findBlock(bs, event.index, "any")
             IN  IF at = 0 THEN Decoded(bs, <<>>, TRUE)
                 ELSE Decoded(bs,
                              IF bs[at].type = "text"
                                  THEN <<Message(bs[at].text)>>
                                  ELSE <<ToolCall(bs[at].id, bs[at].name,
                                                  bs[at].text)>>,
                              FALSE)
    ELSE Decoded(bs, <<Stats>>, FALSE)

\* A call made directly by an application with both parameters, after the
\* request was sent and before the response is read.
DecoderInit ==
    /\ LoopIdle
    /\ SSEIdle
    /\ vendor \in Vendors
    /\ defaultParams = [k \in Required |-> Absent]
    /\ params = [k \in Required |-> "call"]
    /\ request = <<mergeParams(defaultParams, params)>>
    /\ streamEnd = NoSignal
    /\ wire = <<>>
    /\ blocks = <<>>
    /\ partialMessage = <<>>
    /\ partialToolCalls = <<>>
    /\ emitted = <<>>
    /\ second = <<>>

\* The next frame of an Anthropic response goes through filterMap(decodeEvent)
\* and mapConcat.
AnthropicFrame ==
    /\ vendor = "Anthropic"
    /\ request # <<>>
    /\ streamEnd = NoSignal
    /\ Len(wire) < MaxWire
    /\ \E frame \in AnthropicFrames(wire) :
           /\ wire' = Append(wire, frame)
           /\ LET event == decodeEvent(frame)
              IN  IF event = None
                      THEN UNCHANGED <<blocks, emitted, streamEnd>>
                      ELSE LET r == anthropicEvents(blocks, event[1])
                           IN  /\ blocks' = r.blocks
                               /\ emitted' = emitted \o r.events
                               /\ streamEnd' = IF r.thrown
                                                   THEN Die("Error")
                                                   ELSE streamEnd
    /\ UNCHANGED <<second, vendor, defaultParams, params, request, partialMessage,
                   partialToolCalls>>
    /\ UNCHANGED <<loopVars, sseVars>>

\* The deltas and stops a response may hold against the protocol: for an
\* index that was never started, for a block of the other kind, or for a
\* block that content_block_stop has closed.
AnthropicStrayFrames(w) ==
    ({ContentBlockDelta(index, kind, text) :
          index \in 0..(MaxBlocks - 1),
          kind \in {"text_delta", "input_json_delta"},
          text \in Fragments(Len(w) + 1)}
     \cup {ContentBlockStop(index) : index \in 0..(MaxBlocks - 1)})
    \ AnthropicFrames(w)

\* A frame against the protocol goes through filterMap(decodeEvent) and
\* mapConcat like any other.
AnthropicStrayFrame ==
    /\ vendor = "Anthropic"
    /\ request # <<>>
    /\ streamEnd = NoSignal
    /\ Len(wire) < MaxWire
    /\ \E frame \in AnthropicStrayFrames(wire) :
           /\ wire' = Append(wire, frame)
           /\ LET r == anthropicEvents(blocks, decodeEvent(frame)[1])
              IN  /\ blocks' = r.blocks
                  /\ emitted' = emitted \o r.events
                  /\ streamEnd' = IF r.thrown THEN Die("Error")
                                              ELSE streamEnd
    /\ UNCHANGED <<second, vendor, defaultParams, params, request, partialMessage,
                   partialToolCalls>>
    /\ UNCHANGED <<loopVars, sseVars>>

\* One chunk of an OpenAI response: choices[0].delta.content (null or a
\* string), choices[0].delta.tool_calls (at most one entry here) and
\* choices[0].finish_reason.
Chunk(content, tool_calls, finish_reason) ==
    [type |-> "chat.completion.chunk", content |-> content,
     tool_calls |-> tool_calls, finish_reason |-> finish_reason]

\* An entry of delta.tool_calls; id 0 and name "" stand for an id and a
\* name that are not given.
ToolCallDelta(index, id, name, arguments) ==
    [index |-> index, id |-> id, name |-> name, arguments |-> arguments]

\* The finish reasons OpenAI sends, and those ChatCompletionFinishReason
\* lists.
FinishReasons == {"stop", "tool_calls", "length"}

ChatCompletionFinishReason == {"stop", "tool_calls"}

IsChunk(frame) == frame.type = "chat.completion.chunk"

\* The indexes of the tool calls an OpenAI response has opened.
Opened(w) ==
    UNION {{w[i].tool_calls[k].index : k \in 1..Len(w[i].tool_calls)} :
              i \in {j \in 1..Len(w) : IsChunk(w[j])}}

Finished(w) ==
    \E i \in 1..Len(w) : IsChunk(w[i]) /\ w[i].finish_reason # "null"

\* The frames OpenAI may send next: a piece of text, the first or a later
\* piece of a tool call, the chunk that carries the finish reason, which is
\* the last one, or a frame the schema does not decode.
OpenAIFrames(w) ==
    IF Finished(w) THEN {}
    ELSE {Chunk(Some(text), <<>>, "null") : text \in Fragments(Len(w) + 1)}
         \cup (IF Cardinality(Opened(w)) < MaxBlocks
                   THEN LET index == Cardinality(Opened(w))
                        IN  {Chunk(None,
                                   <<ToolCallDelta(index, index + 1, "calc",
                                                   text)>>, "null") :
                                text \in Fragments(Len(w) + 1)}
                   ELSE {})
         \cup {Chunk(None, <<ToolCallDelta(index, 0, "", text)>>, "null") :
                   index \in Opened(w), text \in Fragments(Len(w) + 1)}
         \cup {Chunk(None, <<>>, reason) : reason \in FinishReasons}
         \cup (IF \E i \in 1..Len(w) : IsBad(w[i])
                   THEN {}
                   ELSE {BadFrame(bad) : bad \in BadFrames})

\* S.decodeUnknownOption(S.parseJson(ChatCompletionChunk))(e.data): none
\* for data that is not JSON or does not match the schema, a finish reason
\* the schema does not list included.
decodeChatCompletionChunk(frame) ==
    IF /\ IsChunk(frame)
       /\ frame.finish_reason \in {"null"} \cup ChatCompletionFinishReason
        THEN Some(frame)
        ELSE None

\* partialToolCalls.get(index) as a position, 0 when there is none.
getPartial(partial, index) ==
    IF \E i \in 1..Len(partial) : partial[i].index = index
        THEN CHOOSE i \in 1..Len(partial) : partial[i].index = index
        ELSE 0

\* partialToolCalls after the tool call delta was merged into it:
\* tool.id ||= id, tool.name ||= name, tool.arguments += arguments.
setPartial(partial, toolCall) ==
    LET at == getPartial(partial, toolCall.index)
        tool == IF at = 0 THEN ToolCallDelta(toolCall.index, 0, "", <<>>)
                          ELSE partial[at]
        merged == ToolCallDelta(toolCall.index,
                      IF tool.id # 0 THEN tool.id ELSE toolCall.id,
                      IF tool.name # "" THEN tool.name ELSE toolCall.name,
                      tool.arguments \o toolCall.arguments)
    IN  IF at = 0 THEN Append(partial, merged)
                  ELSE [partial EXCEPT ![at] = merged]

\* The function given to Stream.mapConcat by the OpenAI provider: the
\* accumulated text and tool calls after the chunk, and the stream events
\* it returns.
openAIEvents(message, partial, event) ==
    LET content == event.content
        toolCall == event.tool_calls
        text == IF content # None THEN message \o content[1] ELSE message
        tools1 == IF toolCall # <<>> THEN setPartial(partial, toolCall[1])
                                   ELSE partial
        flush == (event.finish_reason # "null" \/ toolCall # <<>>)
                     /\ Len(text) > 0
    IN  [partialMessage |-> IF flush THEN <<>> ELSE text,
         partialToolCalls |-> tools1,
         events |->
             (IF content # None THEN <<Content(content[1])>> ELSE <<>>)
             \o (IF flush THEN <<Message(text)>> ELSE <<>>)
             \o (IF event.finish_reason # "null"
                     THEN [i \in 1..Len(tools1) |->
                              ToolCall(tools1[i].id, tools1[i].name,
                                       tools1[i].arguments)]
                     ELSE <<>>)]

\* The next frame of an OpenAI response goes through
\* filterMap(decodeChatCompletionChunk) and mapConcat.
OpenAIFrame ==
    /\ vendor = "OpenAI"
    /\ request # <<>>
    /\ streamEnd = NoSignal
    /\ Len(wire) < MaxWire
    /\ \E frame \in OpenAIFrames(wire) :
           /\ wire' = Append(wire, frame)
           /\ LET event == decodeChatCompletionChunk(frame)
              IN  IF event = None
                      THEN UNCHANGED <<partialMessage, partialToolCalls,
                                       emitted>>
                      ELSE LET r == openAIEvents(partialMessage,
                                                 partialToolCalls, event[1])
                           IN  /\ partialMessage' = r.partialMessage
                               /\ partialToolCalls' = r.partialToolCalls
                               /\ emitted' = emitted \o r.events
    /\ UNCHANGED <<second, vendor, defaultParams, params, request, streamEnd, blocks>>
    /\ UNCHANGED <<loopVars, sseVars>>

\* The chunks the ChatCompletionChunk schema admits beyond those above: a
\* first chunk whose delta.tool_calls opens two tool calls at once (the
\* second entry's character is the negated position), and, for a response
\* of several choices, chunks that follow a chunk with a finish reason.
OpenAIWideFrames(w) ==
    (IF w = <<>>
         THEN {Chunk(None, <<ToolCallDelta(0, 1, "calc", text),
                             ToolCallDelta(1, 2, "calc", <<-1>>)>>, "null") :
                  text \in Fragments(1)}
         ELSE {})
    \cup (IF Finished(w)
              THEN {Chunk(Some(text), <<>>, "null") :
                       text \in Fragments(Len(w) + 1)}
                   \cup {Chunk(None, <<ToolCallDelta(index, 0, "", text)>>,
                               "null") :
                             index \in Opened(w),
                             text \in Fragments(Len(w) + 1)}
                   \cup {Chunk(None, <<>>, reason) :
                             reason \in ChatCompletionFinishReason}
              ELSE {})

\* A chunk of that kind goes through filterMap(decodeChatCompletionChunk)
\* and mapConcat like any other.
OpenAIWideFrame ==
    /\ vendor = "OpenAI"
    /\ request # <<>>
    /\ streamEnd = NoSignal
    /\ Len(wire) < MaxWire
    /\ \E frame \in OpenAIWideFrames(wire) :
           /\ wire' = Append(wire, frame)
           /\ LET r == openAIEvents(partialMessage, partialToolCalls,
                                    decodeChatCompletionChunk(frame)[1])
              IN  /\ partialMessage' = r.partialMessage
                  /\ partialToolCalls' = r.partialToolCalls
                  /\ emitted' = emitted \o r.events
    /\ UNCHANGED <<second, vendor, defaultParams, params, request, streamEnd, blocks>>
    /\ UNCHANGED <<loopVars, sseVars>>

\* One frame of a Google response: the first candidate's single part, a
\* Text or a FunctionCall with its arguments.
Candidate(kind, name, text) == Frame("candidates", 0, kind, 0, name, text)

\* The frames Google may send next.
GoogleFrames(w) ==
    {Candidate("Text", "", text) : text \in Fragments(Len(w) + 1)}
        \cup {Candidate("FunctionCall", "calc", text) :
                  text \in Fragments(Len(w) + 1)}
        \cup (IF \E i \in 1..Len(w) : IsBad(w[i])
                  THEN {}
                  ELSE {BadFrame(bad) : bad \in BadFrames})

\* S.decodeUnknownOption(S.parseJson(ContentResponse))(e.data)
decodeContentResponse(frame) ==
    IF frame.type = "candidates" THEN Some(frame) ELSE None

\* A decoder that makes an event of a FunctionResponse part as well.
googleEventsOfAll(part, uuid) ==
    IF part.kind = "Text" THEN <<Content(part.text)>>
    ELSE <<ToolCall(uuid, part.name, part.text)>>

\* The stream events of a part; crypto.randomUUID() gives each call an id
\* of its own, here the position of the frame.
googleEvents(part, uuid) ==
    IF part.kind = "Text" THEN <<Content(part.text)>>
    ELSE IF part.kind = "FunctionCall"
        THEN <<ToolCall(uuid, part.name, part.text)>>
    ELSE <<>>

\* The next frame of a Google response goes through filterMap(decodeEvent)
\* and mapConcat.
GoogleFrame ==
    /\ vendor = "Google"
    /\ request # <<>>
    /\ streamEnd = NoSignal
    /\ Len(wire) < MaxWire
    /\ \E frame \in GoogleFrames(wire) :
           /\ wire' = Append(wire, frame)
           /\ LET event == decodeContentResponse(frame)
              IN  emitted' = IF event = None
                                 THEN emitted
                                 ELSE emitted \o
                                          googleEvents(event[1], Len(wire) + 1)
    /\ UNCHANGED <<second, vendor, defaultParams, params, request, streamEnd, blocks,
                   partialMessage, partialToolCalls>>
    /\ UNCHANGED <<loopVars, sseVars>>

\* A part of a Google candidate's content, and a ContentResponse: its
\* candidates, each given by the parts of its content.
Part(kind, name, text) == [kind |-> kind, name |-> name, text |-> text]

PartKinds == {"Text", "FunctionCall", "FunctionResponse"}

ContentResponse(candidates) ==
    [type |-> "candidates", candidates |-> candidates]

\* The parts of the first candidates of the frames, in order.
PartsIn(w) ==
    Concat([k \in 1..Len(w) |->
               IF w[k].candidates = <<>> THEN <<>> ELSE w[k].candidates[1]])

\* The responses Google may send next: no candidate, or one candidate of
\* up to MaxBlocks parts of any kind; the text of a part is its number in
\* the response.
GoogleResponses(w) ==
    LET sent == Len(PartsIn(w))
        room == IF MaxWire - sent < MaxBlocks THEN MaxWire - sent
                                               ELSE MaxBlocks
    IN  {ContentResponse(<<>>)}
        \cup {ContentResponse(<<[k \in DOMAIN kinds |->
                                    Part(kinds[k],
                                         IF kinds[k] = "Text" THEN ""
                                                              ELSE "calc",
                                         <<sent + k>>)]>>) :
                  kinds \in UNION {[1..n -> PartKinds] : n \in 0..room}}

\* Option.fromNullable(resp.candidates.at(0)?.content.parts), then
\* Array.filterMap over the parts.
partsEvents(resp, sent) ==
    IF resp.candidates = <<>> THEN <<>>
    ELSE Concat([k \in 1..Len(resp.candidates[1]) |->
                    googleEvents(resp.candidates[1][k], sent + k)])

\* The next frame of a Google response whose candidate holds any number of
\* parts goes through the two filterMap and mapConcat.
GooglePartsFrame ==
    /\ vendor = "Google"
    /\ request # <<>>
    /\ streamEnd = NoSignal
    /\ Len(wire) < MaxFrames
    /\ \E frame \in GoogleResponses(wire) :
           /\ wire' = Append(wire, frame)
           /\ emitted' = emitted \o
                  partsEvents(decodeContentResponse(frame)[1],
                              Len(PartsIn(wire)))
    /\ UNCHANGED <<second, vendor, defaultParams, params, request, streamEnd, blocks,
                   partialMessage, partialToolCalls>>
    /\ UNCHANGED <<loopVars, sseVars>>

\* The response ends and the provider's stream ends with it.
ResponseEnds ==
    /\ vendor \in Vendors
    /\ request # <<>>
    /\ streamEnd = NoSignal
    /\ streamEnd' = End
    /\ UNCHANGED <<second, vendor, defaultParams, params, request, wire, blocks,
                   partialMessage, partialToolCalls, emitted>>
    /\ UNCHANGED <<loopVars, sseVars>>

DecoderNext ==
    \/ AnthropicFrame
    \/ OpenAIFrame
    \/ GoogleFrame
    \/ ResponseEnds

DecoderSpec == DecoderInit /\ [][DecoderNext]_vars

\* A Google response whose frames hold any number of parts.
PartsInit == DecoderInit /\ vendor = "Google"

PartsNext ==
    \/ GooglePartsFrame
    \/ ResponseEnds

PartsSpec == PartsInit /\ [][PartsNext]_vars

\* An OpenAI response of any chunks the schema admits.
ChunkInit == DecoderInit /\ vendor = "OpenAI"

ChunkNext ==
    \/ OpenAIFrame
    \/ OpenAIWideFrame
    \/ ResponseEnds

ChunkSpec == ChunkInit /\ [][ChunkNext]_vars

\* An Anthropic response that may hold frames against the protocol.
StrayInit == DecoderInit /\ vendor = "Anthropic"

StrayNext ==
    \/ AnthropicFrame
    \/ AnthropicStrayFrame
    \/ ResponseEnds

StraySpec == StrayInit /\ [][StrayNext]_vars

\* The state of one run of the provider's stream.
Run(w, bs, message, partial, evs) ==
    [wire |-> w, blocks |-> bs, partialMessage |-> message,
     partialToolCalls |-> partial, emitted |-> evs]

\* A run that goes on with the blocks, the text and the tool calls that
\* another run of the provider has accumulated.
newRunOnShared(bs, message, partial) == Run(<<>>, bs, message, partial, <<>>)

\* What a run of the stream starts with: `const blocks: Block[] = []`,
\* `let partialMessage = ""` and `new Map()` are evaluated inside the
\* effect that Stream.unwrap runs, once for every run of the stream,
\* whatever another run holds.
newRun(bs, message, partial) == Run(<<>>, <<>>, <<>>, <<>>, <<>>)

\* The run after the frame went through the vendor's filterMap and
\* mapConcat.
decodeFrame(v, run, frame) ==
    IF v = "Anthropic"
        THEN LET event == decodeEvent(frame)
                 r == anthropicEvents(run.blocks, event[1])
             IN  IF event = None
                     THEN [run EXCEPT !.wire = Append(@, frame)]
                     ELSE [run EXCEPT !.wire = Append(@, frame),
                                      !.blocks = r.blocks,
                                      !.emitted = @ \o r.events]
        ELSE LET event == decodeChatCompletionChunk(frame)
                 r == openAIEvents(run.partialMessage, run.partialToolCalls,
                                   event[1])
             IN  IF event = None
                     THEN [run EXCEPT !.wire = Append(@, frame)]
                     ELSE [run EXCEPT
                              !.wire = Append(@, frame),
                              !.partialMessage = r.partialMessage,
                              !.partialToolCalls = r.partialToolCalls,
                              !.emitted = @ \o r.events]

\* Two runs of one provider's stream, the second started at any moment of
\* the first or after it.
RunsInit == DecoderInit /\ vendor \in {"Anthropic", "OpenAI"}

\* The frames the two runs have read so far; the runs read MaxWire frames
\* together and MaxFrames each.
FramesRead == Len(wire) + (IF second = <<>> THEN 0 ELSE Len(second[1].wire))

\* The next frame of the first run.
FirstFrame ==
    /\ Len(wire) < MaxFrames
    /\ FramesRead < MaxWire
    /\ (AnthropicFrame \/ OpenAIFrame)

\* provider.stream(params) is run a second time.
SecondRun ==
    /\ vendor \in {"Anthropic", "OpenAI"}
    /\ second = <<>>
    /\ request # <<>>
    /\ request' = Append(request, mergeParams(defaultParams, params))
    /\ second' = <<newRun(blocks, partialMessage, partialToolCalls)>>
    /\ UNCHANGED <<vendor, defaultParams, params, streamEnd, wire, blocks,
                   partialMessage, partialToolCalls, emitted>>
    /\ UNCHANGED <<loopVars, sseVars>>

\* The next frame of the second run.
SecondFrame ==
    /\ second # <<>>
    /\ Len(second[1].wire) < MaxFrames
    /\ FramesRead < MaxWire
    /\ \E frame \in (IF vendor = "Anthropic"
                          THEN AnthropicFrames(second[1].wire)
                          ELSE OpenAIFrames(second[1].wire)) :
           second' = <<decodeFrame(vendor, second[1], frame)>>
    /\ UNCHANGED <<vendor, defaultParams, params, request, streamEnd, wire,
                   blocks, partialMessage, partialToolCalls, emitted>>
    /\ UNCHANGED <<loopVars, sseVars>>

RunsNext ==
    \/ FirstFrame
    \/ SecondRun
    \/ SecondFrame
    \/ ResponseEnds

RunsSpec == RunsInit /\ [][RunsNext]_vars

----------------------------------------------------------------------------
(* Request building: what each provider makes of the thread it is asked    *)
(* with.                                                                   *)

\* JSON.stringify(value): the JSON text of a value.
stringify(value) == Data("JSON text", value)

\* A content part of an Anthropic message, an OpenAI message, a part of a
\* Google content: one record shape, id 0 or name "" where the vendor's
\* format has no such field.
Entry(role, type, id, name, data) ==
    [role |-> role, type |-> type, id |-> id, name |-> name, data |-> data]

\* contentFromChunks(message.content): one text part per chunk.
contentFromChunks(data) ==
    IF data.kind = "chunks"
        THEN [k \in 1..Len(data.of) |->
                 Entry("user", "text", 0, "", Data("text", data.of[k]))]
        ELSE <<Entry("user", "text", 0, "", data)>>

\* A tool result encoded under the name of the tool instead of the id of
\* the call.
AnthropicPartByName(event) ==
    IF event.tag = "UserMessage"
        THEN contentFromChunks(event.data)
    ELSE IF event.tag = "AssistantMessage"
        THEN <<Entry("assistant", "text", 0, "", event.data)>>
    ELSE IF event.tag = "ToolUseEvent"
        THEN <<Entry("assistant", "tool_use", event.id, event.name,
                     event.data)>>
    ELSE IF event.tag \in {"ToolResultSuccessEvent", "ToolResultErrorEvent"}
        THEN <<Entry("user", "tool_result", 0, event.name,
                     stringify(event.data))>>
    ELSE <<>>

\* The content parts messagesFromEvents (Anthropic) makes of one event:
\* contentFromChunks for a UserMessage, a text part for an
\* AssistantMessage, a tool_use part with the event's id, a tool_result
\* part with the event's id as tool_use_id; nothing for a SystemMessage.
AnthropicPart(event) ==
    IF event.tag = "UserMessage"
        THEN contentFromChunks(event.data)
    ELSE IF event.tag = "AssistantMessage"
        THEN <<Entry("assistant", "text", 0, "", event.data)>>
    ELSE IF event.tag = "ToolUseEvent"
        THEN <<Entry("assistant", "tool_use", event.id, event.name,
                     event.data)>>
    ELSE IF event.tag \in {"ToolResultSuccessEvent", "ToolResultErrorEvent"}
        THEN <<Entry("user", "tool_result", event.id, "",
                     stringify(event.data))>>
    ELSE <<>>

AnthropicMessage(role, content) == [role |-> role, content |-> content]

\* The role of the message an event goes to; none for a SystemMessage,
\* which Match.orElse leaves out.
AnthropicRole(event) ==
    IF event.tag \in {"UserMessage", "ToolResultSuccessEvent",
                      "ToolResultErrorEvent"}
        THEN "user"
    ELSE IF event.tag \in {"AssistantMessage", "ToolUseEvent"}
        THEN "assistant"
    ELSE ""

\* A reduce that opens a new message for every event.
anthropicReduceApart(messages, event) ==
    IF AnthropicRole(event) = "" THEN messages
    ELSE Append(messages,
                AnthropicMessage(AnthropicRole(event), AnthropicPart(event)))

\* One step of the reduce of messagesFromEvents (Anthropic): the parts of
\* the event join the last message when it has their role, and open a new
\* message otherwise; a SystemMessage leaves the messages alone.
anthropicReduce(messages, event) ==
    LET role == AnthropicRole(event)
        parts == AnthropicPart(event)
    IN  IF role = "" THEN messages
        ELSE IF messages # <<>> /\ messages[Len(messages)].role = role
            THEN [messages EXCEPT ![Len(messages)].content = @ \o parts]
        ELSE Append(messages, AnthropicMessage(role, parts))

\* messagesFromEvents of the Anthropic provider: Array.reduce over the
\* thread.
RECURSIVE anthropicMessagesFromEvents(_)
anthropicMessagesFromEvents(thread) ==
    IF thread = <<>>
        THEN <<>>
        ELSE anthropicReduce(
                 anthropicMessagesFromEvents(SubSeq(thread, 1, Len(thread) - 1)),
                 thread[Len(thread)])

\* messagesFromEvents of the OpenAI provider: Array.filterMap, one message
\* per event; the id of a ToolUseEvent is tool_calls[0].id, that of a
\* result tool_call_id.
openAIMessage(event) ==
    IF event.tag = "SystemMessage"
        THEN Entry("system", "content", 0, "", event.data)
    ELSE IF event.tag = "UserMessage"
        THEN Entry("user", "content", 0, "", event.data)
    ELSE IF event.tag = "AssistantMessage"
        THEN Entry("assistant", "content", 0, "", event.data)
    ELSE IF event.tag = "ToolUseEvent"
        THEN Entry("assistant", "tool_calls", event.id, event.name,
                   stringify(event.data))
    ELSE Entry("tool", "tool_call_id", event.id, "", stringify(event.data))

openAIMessagesFromEvents(thread) ==
    [i \in 1..Len(thread) |-> openAIMessage(thread[i])]

\* contentsFromEvents of the Google provider: one content per event, none
\* for a SystemMessage; a FunctionCall and a FunctionResponse carry the
\* name of the tool and no id.
googleContent(event) ==
    IF event.tag = "UserMessage"
        THEN <<Entry("user", "Text", 0, "", event.data)>>
    ELSE IF event.tag = "AssistantMessage"
        THEN <<Entry("model", "Text", 0, "", event.data)>>
    ELSE IF event.tag = "ToolUseEvent"
        THEN <<Entry("model", "FunctionCall", 0, event.name, event.data)>>
    ELSE IF event.tag \in {"ToolResultSuccessEvent", "ToolResultErrorEvent"}
        THEN <<Entry("user", "FunctionResponse", 0, event.name, event.data)>>
    ELSE <<>>

RECURSIVE contentsFromEvents(_)
contentsFromEvents(thread) ==
    IF thread = <<>>
        THEN <<>>
        ELSE googleContent(Head(thread)) \o contentsFromEvents(Tail(thread))

\* The events a thread given to provider.stream may hold, and the threads
\* of up to MaxEvents events.
ThreadEvents ==
    {UserMessage("hi"), UserMessageOf(<<>>), UserMessageOf(<<"a", "b">>),
     AssistantMessage("ok"), SystemMessage("be brief"),
     ToolUseEvent(1, "calc", Data("input", "")),
     ToolResultSuccessEvent(1, "calc", Data("result", "")),
     ToolResultErrorEvent(2, "calc", Data("result", ""))}

Threads == UNION {[1..n -> ThreadEvents] : n \in 0..MaxEvents}

\* A call of the Anthropic provider's stream with both parameters and a
\* thread of the application's choice, before the request is built.
EncoderInit ==
    /\ LoopIdle
    /\ SSEIdle
    /\ vendor = "Anthropic"
    /\ defaultParams = [k \in Required |-> Absent]
    /\ params \in {[apiKey |-> "call", model |-> "call", events |-> thread] :
                       thread \in Threads}
    /\ request = <<>>
    /\ streamEnd = NoSignal
    /\ wire = <<>>
    /\ blocks = <<>>
    /\ partialMessage = <<>>
    /\ partialToolCalls = <<>>
    /\ emitted = <<>>
    /\ second = <<>>

\* The body of the request is built: messages is
\* messagesFromEvents(params.events).
AnthropicRequest ==
    /\ vendor = "Anthropic"
    /\ request = <<>>
    /\ request' = <<anthropicMessagesFromEvents(params.events)>>
    /\ UNCHANGED <<second, vendor, defaultParams, params, streamEnd, wire, blocks,
                   partialMessage, partialToolCalls, emitted>>
    /\ UNCHANGED <<loopVars, sseVars>>

EncoderSpec == EncoderInit /\ [][AnthropicRequest]_vars

\* ToolCallOption: "auto", "required", { name } and "none"; NoOption is a
\* call without params.toolCall.
Option(kind, name) == [kind |-> kind, name |-> name]

NoOption == Option("absent", "")

ToolCallOption ==
    {Option("auto", ""), Option("required", ""), Option("none", ""),
     Option("name", "calc")}

\* A vendor's setting: tool_choice or toolConfig, the forced tool's name
\* where there is one.
Choice(setting, name) == [setting |-> setting, name |-> name]

NoChoice == Choice("undefined", "")

\* getToolChoice of the Anthropic provider; none when it fails with
\* InvalidToolCallOptionError.
anthropicGetToolChoice(toolCall) ==
    IF toolCall.kind = "name" THEN Some(Choice("tool", toolCall.name))
    ELSE IF toolCall.kind = "auto" THEN Some(Choice("auto ", ""))
    ELSE IF toolCall.kind = "required" THEN Some(Choice("any", ""))
    ELSE None

\* getToolChoice of the OpenAI provider.
openAIGetToolChoice(toolCall) ==
    IF toolCall.kind = "name" THEN Some(Choice("function", toolCall.name))
    ELSE Some(Choice(toolCall.kind, ""))

\* getToolChoice of the Google provider: functionCallingConfig.mode and
\* allowedFunctionNames.
googleGetToolChoice(toolCall) ==
    IF toolCall.kind = "name" THEN Some(Choice("Any", toolCall.name))
    ELSE IF toolCall.kind = "auto" THEN Some(Choice("Auto", ""))
    ELSE IF toolCall.kind = "required" THEN Some(Choice("Any", ""))
    ELSE Some(Choice("None", ""))

getToolChoice(v, toolCall) ==
    IF v = "Anthropic" THEN anthropicGetToolChoice(toolCall)
    ELSE IF v = "OpenAI" THEN openAIGetToolChoice(toolCall)
    ELSE googleGetToolChoice(toolCall)

\* A call of a provider's stream with or without each required parameter
\* and params.toolCall.
ToolChoiceInit ==
    /\ LoopIdle
    /\ SSEIdle
    /\ vendor \in Vendors
    /\ defaultParams \in [Required -> {Absent, "default"}]
    /\ params \in [apiKey : {Absent, "call"}, model : {Absent, "call"},
                    toolCall : ToolCallOption \cup {NoOption}]
    /\ request = <<>>
    /\ streamEnd = NoSignal
    /\ wire = <<>>
    /\ blocks = <<>>
    /\ partialMessage = <<>>
    /\ partialToolCalls = <<>>
    /\ emitted = <<>>
    /\ second = <<>>

\* The stream is run: the parameters are checked, the tool choice is
\* translated and the request is built with it; Anthropic's stream turns
\* an InvalidToolCallOptionError into an UnknownException.
streamWithToolCall ==
    /\ vendor \in Vendors
    /\ request = <<>>
    /\ streamEnd = NoSignal
    /\ LET merged == mergeParams(defaultParams, params)
           toolChoice == IF params.toolCall = NoOption
                             THEN Some(NoChoice)
                             ELSE getToolChoice(vendor, params.toolCall)
       IN  IF ~fromNullable(merged["apiKey"])
               THEN /\ streamEnd' = MissingParameterError("apiKey")
                    /\ UNCHANGED request
           ELSE IF ~fromNullable(merged["model"])
               THEN /\ streamEnd' = MissingParameterError("model")
                    /\ UNCHANGED request
           ELSE IF toolChoice = None
               THEN /\ streamEnd' =
                           UnknownException("InvalidToolCallOptionError")
                    /\ UNCHANGED request
           ELSE /\ request' = <<[apiKey |-> merged["apiKey"],
                                  model |-> merged["model"],
                                  tool_choice |-> toolChoice[1]]>>
                /\ UNCHANGED streamEnd
    /\ UNCHANGED <<second, vendor, defaultParams, params, wire, blocks,
                   partialMessage, partialToolCalls, emitted>>
    /\ UNCHANGED <<loopVars, sseVars>>

ToolChoiceSpec == ToolChoiceInit /\ [][streamWithToolCall]_vars

----------------------------------------------------------------------------
(* Properties. *)

Last(seq) == seq[Len(seq)]

Terminal == pc \in {"settled", "done"}

\* C1: when streamTools is called with maxIterations = 0 the output stream
\* terminates with MaxIterationsError and nothing else: no element is ever
\* delivered, truncateEvents is not called, the provider is not invoked and
\* no handler runs.
C1_ZeroBudgetFailsAtOnce ==
    callerMaxIterations = <<0>> =>
        /\ out = <<>>
        /\ truncCalls = 0
        /\ providerCalls = 0
        /\ handlerLog = <<>>
        /\ pc \in {"call", "settled", "done"}
        /\ pc = "settled" => sig = MaxIterationsError
        /\ pc = "done" => term = MaxIterationsError

C1_Witness ==
    /\ callerMaxIterations = <<0>>
    /\ pc = "done"
    /\ term = MaxIterationsError


\* The pipeline consumes a ToolCall the loop must reject: its name matches
\* no registered tool, or the schema of the registered tool rejects its
\* arguments.
Rejected(e) ==
    /\ e.tag = "ToolCall"
    /\ \/ e.name \notin tools
       \/ e.name \in SchemaTools /\ e.data.of # "ok"

ConsumesRejected ==
    /\ pc = "stream"
    /\ produced' = produced + 1
    /\ Rejected(Last(response'))

\* The budget after one iteration was charged.
Charged(m) == IF m = <<>> THEN <<>> ELSE <<m[1] - 1>>

\* What C2 asks of a step that consumes the rejected call e.
RecursesOnceWith(e) ==
    /\ out' = Append(out, InvalidToolCall(e.id, e.name, e.data.of))
    /\ handlerLog' = handlerLog
    /\ Len(events') = Len(events) + 2
    /\ SubSeq(events', 1, Len(events)) = events
    /\ events'[Len(events) + 1] =
           ToolUseEvent(e.id, e.name, Data("json", e.data.of))
    /\ LET result == events'[Len(events) + 2]
       IN  /\ result.tag = "ToolResultErrorEvent"
           /\ result.id = e.id
           /\ result.name = e.name
    /\ maxIterations' = Charged(maxIterations)
    /\ pc' = "call"
    /\ Len(frames') = Len(frames) + 1
    /\ providerCalls' = providerCalls

\* C2: a ToolCall with an unregistered name, or with arguments the tool's
\* schema rejects, makes the loop emit exactly one InvalidToolCall, run no
\* handler, and recurse once with the thread extended by the ToolUseEvent
\* (input = the JSON-decoded arguments) and a ToolResultErrorEvent, the
\* budget reduced by one.
C2_InvalidCallRecursesOnce ==
    [][ConsumesRejected => RecursesOnceWith(Last(response'))]_vars

\* C2 restricted to arguments that are well-formed JSON: this part holds.
C2_WellFormedInvalidCallRecursesOnce ==
    [][(ConsumesRejected /\ Last(response').data.of \in WellFormed)
          => RecursesOnceWith(Last(response'))]_vars

\* C10: a model-reported invalid call, whatever its arguments string, never
\* makes the output stream fail: the step that consumes it leaves the stream
\* without a failure (MaxIterationsError can only come from the next
\* iteration's budget check).
C10_InvalidCallNeverFails ==
    [][ConsumesRejected => sig'.kind # "fail"]_vars

\* C10 restricted to arguments that are well-formed JSON: this part holds.
C10_WellFormedInvalidCallNeverFails ==
    [][(ConsumesRejected /\ Last(response').data.of \in WellFormed)
          => (sig'.kind # "fail" /\ pc' = "call")]_vars


IsToolResult(e) == e.tag \in {"ToolResultSuccess", "ToolResultError"}

\* The latest handler invocation raised the halt signal.
Halted ==
    /\ handlerLog # <<>>
    /\ Last(handlerLog).outcome = "HaltToolLoopError"

\* The state the loop is in once call k = idx of the batch has halted.
HaltedState ==
    /\ Terminal
    /\ pc = "settled" => sig = End
    /\ pc = "done" => term = End
    /\ Last(handlerLog).id = fnCalls[idx].id
    /\ Len(out) >= idx - 1
    /\ \A j \in 1..(idx - 1) :
           LET e == out[Len(out) - (idx - 1) + j]
           IN  IsToolResult(e) /\ e.id = fnCalls[j].id
    /\ \A i \in DOMAIN out :
           ~(IsToolResult(out[i]) /\ out[i].id = fnCalls[idx].id)
    /\ \A i \in DOMAIN handlerLog :
           \A j \in (idx + 1)..Len(fnCalls) :
               handlerLog[i].id # fnCalls[j].id

\* C3: when the handler of call k of a batch raises the halt signal, in the
\* first or a recursive iteration, the top-level stream ends successfully:
\* the results of calls 1..k-1 have been emitted, none is emitted for call
\* k, the handlers of calls k+1..n are never invoked, and nothing more is
\* emitted, run or requested from the provider.
C3_HaltEndsSuccessfully ==
    /\ [](Halted => HaltedState)
    /\ [][Halted => /\ providerCalls' = providerCalls
                    /\ handlerLog' = handlerLog
                    /\ out' = out
                    /\ events' = events]_vars

\* The second of three calls halts, after the first call's result.
C3_Witness ==
    /\ Halted
    /\ pc = "done"
    /\ term = End
    /\ idx = 2
    /\ Len(fnCalls) = 3
    /\ IsToolResult(Last(out))

\* A handler halts in a recursive iteration.
C3_WitnessRecursive ==
    /\ Halted
    /\ pc = "done"
    /\ term = End
    /\ frames # <<>>
    /\ idx = 2

\* The latest handler invocation failed with the typed error `outcome`.
HandlerFailedWith(outcomes) ==
    /\ handlerLog # <<>>
    /\ Last(handlerLog).outcome \in outcomes

\* The state the loop is in once call k = idx of the batch has failed
\* fatally: the stream fails with ToolExecutionError(id, error), the calls
\* after k were never run, and nothing about call k is in the output, in
\* newEvents or in the thread.
FatalState ==
    /\ Terminal
    /\ sig = ToolExecutionError(fnCalls[idx].id, HandlerError)
    /\ pc = "done" => term = ToolExecutionError(fnCalls[idx].id, HandlerError)
    /\ Last(handlerLog).id = fnCalls[idx].id
    /\ \A i \in DOMAIN handlerLog :
           \A j \in (idx + 1)..Len(fnCalls) :
               handlerLog[i].id # fnCalls[j].id
    /\ \A i \in DOMAIN out : out[i].id # fnCalls[idx].id \/ out[i].tag = "ToolCall"
    /\ \A i \in DOMAIN events : events[i].id # fnCalls[idx].id
    /\ \A i \in DOMAIN newEvents : newEvents[i].id # fnCalls[idx].id

FrozenStep ==
    /\ providerCalls' = providerCalls
    /\ handlerLog' = handlerLog
    /\ out' = out
    /\ events' = events

CompletesWith(outcome) ==
    /\ pc = "handler"
    /\ handlerLog' # handlerLog
    /\ Last(handlerLog').outcome = outcome

\* The batch is over and handleToolCalls recurses.
BatchRecurses ==
    /\ pc = "handler"
    /\ pc' = "call"
    /\ Len(frames') = Len(frames) + 1
    /\ Last(frames') = "handleToolCalls"

ErrorPair(c) ==
    <<ToolUseEvent(c.id, c.name, c.input),
      ToolResultErrorEvent(c.id, c.name, Data("payload", c.args))>>

\* C5: a handler failing with a ToolError does not abort the loop: it emits
\* ToolResultError(id, name, payload), pushes ToolUseEvent then
\* ToolResultErrorEvent(id, name, payload), goes on with the next call, and
\* when the batch is over the recursion's thread, which is what the
\* provider is asked with, holds the pair of every call that failed so.
C5_ToolErrorIsReported ==
    /\ [][CompletesWith("ToolError") =>
            LET c == fnCalls[idx]
            IN  /\ out' = Append(out,
                        ToolResultError(c.id, c.name, Data("payload", c.args)))
                /\ sig' = NoSignal
                /\ IF idx < Len(fnCalls)
                       THEN /\ pc' = "tools"
                            /\ idx' = idx + 1
                            /\ newEvents' = newEvents \o ErrorPair(c)
                            /\ events' = events
                       ELSE /\ BatchRecurses
                            /\ events' = events \o newEvents \o ErrorPair(c)]_vars
    /\ [][BatchRecurses =>
            \A j \in 1..Len(fnCalls) :
                handlerLog'[Len(handlerLog') - Len(fnCalls) + j].outcome
                        = "ToolError"
                    => SubSeq(events', Len(events) + 2 * j - 1,
                              Len(events) + 2 * j) = ErrorPair(fnCalls[j])]_vars
    /\ [][(pc = "call" /\ pc' = "stream" /\ ~hasTruncate)
              => lastRequest' = events]_vars

\* A ToolError of the first call, a second call run after it, and the
\* recursion's request carrying the error result.
C5_Witness ==
    /\ pc = "stream"
    /\ ~hasTruncate
    /\ Len(handlerLog) = 2
    /\ handlerLog[1].outcome = "ToolError"
    /\ \E i \in DOMAIN lastRequest :
           /\ lastRequest[i].tag = "ToolResultErrorEvent"
           /\ lastRequest[i].id = handlerLog[1].id

IsToolCall(e) == e.tag = "ToolCall"

\* The handler invocations made for the current batch, in order.
BatchLog(n) == SubSeq(handlerLog, Len(handlerLog) - n + 1, Len(handlerLog))

\* C6: within one iteration the valid calls run strictly one at a time in
\* the order their ToolCall events were streamed: fnCalls lists the streamed
\* calls in order, each with its schema-decoded input; when the handler of
\* call idx is started or about to start, exactly the handlers of calls
\* 1..idx-1 have run before it, each completed and its ToolResult emitted,
\* in that order; and no two handlers ever run at once.
C6_SequentialInOrder ==
    /\ pc \in {"stream", "tools", "handler"} =>
          LET calls == SelectSeq(response, IsToolCall)
          IN  /\ Len(fnCalls) = Len(calls)
              /\ \A j \in DOMAIN calls :
                     /\ fnCalls[j].id = calls[j].id
                     /\ fnCalls[j].name = calls[j].name
                     /\ fnCalls[j].input =
                            Data(IF calls[j].name \in SchemaTools
                                     THEN "decoded" ELSE "json",
                                 calls[j].data.of)
    /\ Cardinality({i \in DOMAIN handlerLog :
                        handlerLog[i].outcome = "running"})
           = IF pc = "handler" THEN 1 ELSE 0
    /\ pc \in {"tools", "handler"} =>
          LET n == IF pc = "handler" THEN idx ELSE idx - 1
          IN  /\ Len(handlerLog) >= n
              /\ Len(out) >= idx - 1
              /\ \A j \in 1..n :
                     /\ BatchLog(n)[j].id = fnCalls[j].id
                     /\ BatchLog(n)[j].input = fnCalls[j].input
                     /\ (BatchLog(n)[j].outcome = "running") = (j = idx)
              /\ \A i \in DOMAIN handlerLog :
                     (\E j \in DOMAIN fnCalls : handlerLog[i].id = fnCalls[j].id)
                         => i > Len(handlerLog) - n
              /\ \A j \in 1..(idx - 1) :
                     LET e == out[Len(out) - (idx - 1) + j]
                     IN  IsToolResult(e) /\ e.id = fnCalls[j].id

\* The third handler of a batch of three is running.
C6_Witness ==
    /\ pc = "handler"
    /\ idx = 3
    /\ Len(handlerLog) = 3

\* The provider's response completed without a tool call.
CompletedWithoutCalls == provider = "complete" /\ fnCalls = <<>>

\* C7: when a provider response completes without any tool call, the stream
\* ends successfully right after StreamLoopEnd: no handler runs, the thread
\* is not extended and the provider is not invoked again.
C7_NoCallsEnds ==
    /\ [](CompletedWithoutCalls =>
            /\ Terminal
            /\ sig = End
            /\ pc = "done" => term = End
            /\ out # <<>>
            /\ Last(out) = StreamLoopEnd)
    /\ [][CompletedWithoutCalls => FrozenStep]_vars

\* A recursive iteration answered with text only.
C7_Witness ==
    /\ CompletedWithoutCalls
    /\ pc = "done"
    /\ term = End
    /\ frames # <<>>
    /\ response # <<>>

\* C8: with maxIterations = N >= 1 the provider is invoked at most N times
\* over the whole run, whatever consumed the iterations; the budget of a
\* call is N less the recursions made; and when the N-th response leads to
\* a recursion the stream fails with MaxIterationsError, which no other
\* condition raises.
C8_BudgetBoundsProviderCalls ==
    (callerMaxIterations # <<>> /\ callerMaxIterations[1] >= 1) =>
        LET N == callerMaxIterations[1]
        IN  /\ providerCalls <= N
            /\ Len(frames) <= N
            /\ maxIterations = <<N - Len(frames)>>
            /\ (Len(frames) = N /\ Terminal) => sig = MaxIterationsError
            /\ (Len(frames) = N /\ pc = "done") => term = MaxIterationsError
            /\ (Terminal /\ sig = MaxIterationsError) =>
                   (Len(frames) = N /\ providerCalls = N)
            /\ (pc = "done" /\ term.error = "MaxIterationsError") =>
                   Len(frames) = N

\* Budget 2: one iteration consumed by a valid batch, one by an unknown
\* tool call, and the stream fails with MaxIterationsError.
C8_Witness ==
    /\ callerMaxIterations = <<2>>
    /\ pc = "done"
    /\ term = MaxIterationsError
    /\ providerCalls = 2
    /\ frames = <<"handleToolCalls", "onInvalidToolCall">>

\* C9: for every finite maxIterations, whatever the provider answers and
\* the handlers do, the output stream eventually gets its terminal signal.
C9_Terminates ==
    (callerMaxIterations # <<>>) ~> (pc = "done" /\ term.kind \in {"end", "fail"})

\* Budget 2, every iteration answered with an invalid tool call: the run
\* has ended.
C9_Witness ==
    /\ callerMaxIterations = <<2>>
    /\ pc = "done"
    /\ term.kind = "fail"
    /\ Cardinality({i \in DOMAIN out : out[i].tag = "InvalidToolCall"}) = 2

\* A step in which the pipeline takes the next event of the provider's
\* stream: the event is the last of response'.
Consumes ==
    /\ pc = "stream"
    /\ produced' = produced + 1

\* An event onStreamEvent lets through: anything but a ToolCall, and a
\* ToolCall of a registered tool whose arguments decode.
Accepted(e) == e.tag # "ToolCall" \/ Classify(e) = "valid"

\* The elements delivered since the latest StreamLoop.
IterationOut ==
    LET starts == {i \in DOMAIN out : out[i] = StreamLoop}
        start == CHOOSE i \in starts : \A j \in starts : j <= i
    IN  IF starts = {} THEN <<>> ELSE SubSeq(out, start + 1, Len(out))

IsResultEvent(e) == e.tag \in {"ToolResultSuccessEvent", "ToolResultErrorEvent"}

\* Every result event of the thread directly follows the ToolUseEvent of the
\* same call, and every ToolUseEvent is directly followed by its result.
Paired(thread) ==
    \A i \in DOMAIN thread :
        /\ IsResultEvent(thread[i]) =>
               /\ i > 1
               /\ thread[i - 1].tag = "ToolUseEvent"
               /\ thread[i - 1].id = thread[i].id
               /\ thread[i - 1].name = thread[i].name
        /\ thread[i].tag = "ToolUseEvent" =>
               /\ i < Len(thread)
               /\ IsResultEvent(thread[i + 1])
               /\ thread[i + 1].id = thread[i].id

\* The pairs of the calls that handlers ran stand in the thread in the order
\* the handlers ran.
InExecutionOrder(thread) ==
    \A i, j \in DOMAIN thread :
        \A a, b \in DOMAIN handlerLog :
            (/\ i < j
             /\ thread[i].tag = "ToolUseEvent"
             /\ thread[j].tag = "ToolUseEvent"
             /\ handlerLog[a].id = thread[i].id
             /\ handlerLog[b].id = thread[j].id) => a < b

IsPrefix(s, t) == Len(s) <= Len(t) /\ SubSeq(t, 1, Len(s)) = s

\* C12: the thread of every call of the loop, at any depth, and the thread
\* the provider is asked with keep results paired with their ToolUseEvent:
\* a result directly follows the ToolUseEvent of the same id and name, no
\* ToolUseEvent stands without its result, the pairs of executed calls are
\* in execution order, and the loop only ever appends to the thread.
C12_ThreadPairing ==
    /\ [](Paired(events) /\ InExecutionOrder(events))
    /\ []((providerCalls > 0 /\ ~hasTruncate) =>
             (Paired(lastRequest) /\ IsPrefix(lastRequest, events)))
    /\ [][IsPrefix(events, events')]_vars
    /\ [][(pc = "call" /\ pc' = "stream" /\ ~hasTruncate)
              => lastRequest' = events]_vars

\* The provider is asked with a thread holding the pair of an invalid call
\* and, behind it, the pair of an executed call.
C12_Witness ==
    /\ pc = "stream"
    /\ ~hasTruncate
    /\ Len(lastRequest) = 5
    /\ lastRequest[3].tag = "ToolResultErrorEvent"
    /\ lastRequest[2].name = "ghost"
    /\ lastRequest[5].tag = "ToolResultSuccessEvent"

\* A handler of the run is executing.
HandlerRunning ==
    \E i \in DOMAIN handlerLog : handlerLog[i].outcome = "running"

\* A step that recurses into a nested streamTools call.
Recurses == Len(frames') = Len(frames) + 1

\* A step that invokes the provider.
InvokesProvider == providerCalls' = providerCalls + 1

C14_WitnessReading ==
    /\ consumer = "stopped"
    /\ provider = "interrupted"
    /\ response # <<>>

\* The terminal signals that carry the failure of the read of the response.
Carries(exit) ==
    IF exit = "defect"
        THEN {UnknownException("defect"), Die("defect")}
        ELSE {Fail(exit)}

\* C15: when the read of the response bytes fails (transport failure or
\* defect), after any number of frames, the frame stream terminates with
\* that failure and never ends as if the response had completed.
C15_ReaderFailureEndsFrameStream ==
    (sseExit \in ResponseFailures /\ sseEnd # NoSignal) =>
        sseEnd \in Carries(sseExit)

\* The asyncPush variant of streamSSE does terminate with the failure.
C15_PushReaderFailureEndsFrameStream ==
    (sseKind = "push" /\ sseExit \in ResponseFailures) =>
        sseEnd \in Carries(sseExit)

C15_PushWitness ==
    /\ sseKind = "push"
    /\ sseExit \in ResponseFailures
    /\ sseFed > 0
    /\ sseEnd \in Carries(sseExit)


\* C16: whenever a fatal condition occurs, at any recursion depth, the
\* top-level stream terminates with a failure that carries that error and
\* never with a successful end, and the elements emitted before it stay in
\* the output.
C16_FatalConditionEndsOutputWithItsError ==
    [][/\ IsPrefix(out, out')
       /\ (sig.kind = "fail" /\ pc' = "done") => term' = sig]_vars

C16_Witness ==
    /\ pc = "done"
    /\ frames # <<>>
    /\ sig = ToolExecutionError(sig.id, HandlerError)
    /\ term = sig
    /\ Len(out) > 4

\* The parameter is in neither the provider's defaults nor the call.
Missing(parameter) ==
    defaultParams[parameter] = Absent /\ params[parameter] = Absent

\* The stream returned by provider.stream has been run.
Checked == request # <<>> \/ streamEnd # NoSignal

\* C17: for each provider, stream fails with MissingParameterError for
\* apiKey, or for model, exactly when that parameter is absent from both
\* the defaults and the call (apiKey is checked first); no request is then
\* built or sent, and through streamTools the error ends the output stream
\* as a failure.
C17_MissingParameterFailsBeforeRequest ==
    /\ Checked =>
           /\ streamEnd = MissingParameterError("apiKey") <=>
                  Missing("apiKey")
           /\ streamEnd = MissingParameterError("model") <=>
                  (~Missing("apiKey") /\ Missing("model"))
    /\ streamEnd.error = "MissingParameterError" =>
           /\ request = <<>>
           /\ pc \in {"stream", "settled", "done"}
           /\ pc = "settled" => sig = streamEnd
           /\ pc = "done" => term = streamEnd

C17_Witness ==
    /\ vendor = "Google"
    /\ pc = "done"
    /\ term = MissingParameterError("model")
    /\ defaultParams["apiKey"] # Absent
    /\ params["apiKey"] = Absent
    /\ request = <<>>

\* The response read so far holds a frame whose data is not JSON or does
\* not match the vendor's schema.
HoldsBadFrame == \E i \in 1..Len(wire) : IsBad(wire[i])

\* C18: when the response holds a frame whose data is malformed, the
\* decoder's stream fails with a decode error; the frame is not silently
\* skipped.
C18_MalformedFrameFailsStream ==
    HoldsBadFrame => streamEnd.kind \in {"fail", "die"}

\* What the decoders do instead: the frame leaves no trace in the events
\* and the stream goes on to its normal end.
C18_MalformedFrameIsSkipped ==
    [][(HoldsBadFrame' /\ ~HoldsBadFrame) =>
           (emitted' = emitted /\ streamEnd' = NoSignal)]_vars

\* The elements of a sequence of events that carry the given tag.
Tagged(evs, tag) == SelectSeq(evs, LAMBDA e : e.tag = tag)

\* The response read so far is a complete response made of one text, sent
\* as one or more text deltas.
SingleText ==
    IF vendor = "Anthropic"
        THEN /\ Len(wire) >= 3
             /\ wire[1] = ContentBlockStart(0, "text", 0, "")
             /\ wire[Len(wire)] = ContentBlockStop(0)
             /\ \A i \in 2..(Len(wire) - 1) :
                    wire[i].type = "content_block_delta"
    ELSE IF vendor = "OpenAI"
        THEN /\ Len(wire) >= 2
             /\ \A i \in 1..(Len(wire) - 1) :
                    /\ IsChunk(wire[i])
                    /\ wire[i].content # None
                    /\ wire[i].finish_reason = "null"
             /\ IsChunk(wire[Len(wire)])
             /\ wire[Len(wire)].finish_reason \in {"stop", "length"}
    ELSE FALSE

\* The text deltas of a single-text response, in arrival order.
TextDeltas ==
    IF vendor = "Anthropic"
        THEN [i \in 1..(Len(wire) - 2) |-> wire[i + 1].text]
        ELSE [i \in 1..(Len(wire) - 1) |-> wire[i].content[1]]

\* One Content per delta in arrival order, then exactly one Message whose
\* content is the concatenation of the Content events.
ContentsThenMessage ==
    /\ Tagged(emitted, "Content") =
           [i \in 1..Len(TextDeltas) |-> Content(TextDeltas[i])]
    /\ Tagged(emitted, "Message") = <<Message(Concat(TextDeltas))>>
    /\ emitted[Len(emitted)].tag = "Message"

\* C19: for the Anthropic and the OpenAI decoder, a single-text response
\* delivered as N >= 1 text deltas gives one Content per delta in arrival
\* order and then exactly one Message, whose content is the concatenation
\* of the Content events.
C19_ContentsThenOneMessage ==
    SingleText => (emitted # <<>> /\ ContentsThenMessage)

\* The Anthropic decoder does so for every split.
C19_AnthropicContentsThenOneMessage ==
    (vendor = "Anthropic" /\ SingleText) =>
        (emitted # <<>> /\ ContentsThenMessage)

\* The OpenAI decoder does so when the text is not empty and the finish
\* reason is one its schema lists.
C19_OpenAIContentsThenOneMessage ==
    (/\ vendor = "OpenAI"
     /\ SingleText
     /\ Concat(TextDeltas) # <<>>
     /\ wire[Len(wire)].finish_reason \in ChatCompletionFinishReason) =>
        (emitted # <<>> /\ ContentsThenMessage)

\* The fragments of the input_json_delta frames of one block, in order.
JsonOf(w, index) ==
    LET deltas == SelectSeq(w, LAMBDA f :
                      /\ f.type = "content_block_delta"
                      /\ f.kind = "input_json_delta"
                      /\ f.index = index)
    IN  [i \in 1..Len(deltas) |-> deltas[i].text]

\* The content_block_stop frames of the tool-use blocks, in arrival order.
ToolStops(w) ==
    SelectSeq(w, LAMBDA f :
        /\ f.type = "content_block_stop"
        /\ StartOf(w, f.index).kind = "tool_use")

\* The frames for which the decoder emits an event.
Speaking(w) ==
    SelectSeq(w, LAMBDA f :
        /\ ~IsBad(f)
        /\ ~(f.type = "content_block_delta" /\ f.kind = "input_json_delta"))

\* C20: for the Anthropic decoder, no event is emitted for an
\* input_json_delta fragment, and the one ToolCall emitted at the
\* content_block_stop of a tool-use block has the id and name given at its
\* content_block_start and, as arguments, the fragments of that block index
\* alone, concatenated in order.
C20_ToolCallCarriesItsOwnFragments ==
    vendor = "Anthropic" =>
        /\ Len(emitted) = Len(Speaking(wire))
        /\ Tagged(emitted, "ToolCall") =
               [j \in 1..Len(ToolStops(wire)) |->
                   LET index == ToolStops(wire)[j].index
                   IN  ToolCall(StartOf(wire, index).id,
                                StartOf(wire, index).name,
                                Concat(JsonOf(wire, index)))]

C20_Witness ==
    /\ vendor = "Anthropic"
    /\ Len(Tagged(emitted, "ToolCall")) = 1
    /\ Len(blocks) = 2
    /\ \A i \in 1..2 : blocks[i].type = "toolUse" /\ blocks[i].text # <<>>

\* The ids, in order, of the elements of a sequence that satisfy a test.
IdsOf(seq, Test(_)) ==
    LET kept == SelectSeq(seq, Test) IN [i \in 1..Len(kept) |-> kept[i].id]

ToolUseIds(thread) == IdsOf(thread, LAMBDA e : e.tag = "ToolUseEvent")

ResultIds(thread) == IdsOf(thread, IsResultEvent)

\* The content parts of a sequence of Anthropic messages, in order.
PartsOf(messages) == Concat([i \in 1..Len(messages) |-> messages[i].content])

\* C21: the id of a tool call is kept across the iterations: the
\* ToolUseEvent and the result event the loop appends carry the id of the
\* ToolCall the decoder emitted, and the request of the next iteration
\* carries it on the tool-use entry and on the tool-result entry
\* (Anthropic: tool_use.id and tool_result.tool_use_id; OpenAI:
\* tool_calls[0].id and tool_call_id).
C21_ToolCallIdIsKept ==
    /\ \A i \in DOMAIN events :
           events[i].tag = "ToolUseEvent" =>
               /\ i < Len(events)
               /\ IsResultEvent(events[i + 1])
               /\ events[i + 1].id = events[i].id
               /\ \E j \in DOMAIN out :
                      /\ out[j].tag \in {"ToolCall", "InvalidToolCall"}
                      /\ out[j].id = events[i].id
                      /\ out[j].name = events[i].name
    /\ providerCalls > 0 =>
           LET parts == PartsOf(anthropicMessagesFromEvents(lastRequest))
               messages == openAIMessagesFromEvents(lastRequest)
           IN  /\ IdsOf(parts, LAMBDA q : q.type = "tool_use") =
                      ToolUseIds(lastRequest)
               /\ IdsOf(parts, LAMBDA q : q.type = "tool_result") =
                      ResultIds(lastRequest)
               /\ IdsOf(messages, LAMBDA m : m.type = "tool_calls") =
                      ToolUseIds(lastRequest)
               /\ IdsOf(messages, LAMBDA m : m.type = "tool_call_id") =
                      ResultIds(lastRequest)
               /\ ~hasTruncate => ToolUseIds(lastRequest) = ResultIds(lastRequest)

\* The request of the third iteration carries the ids of two calls, one
\* from each of the iterations before it.
C21_Witness ==
    /\ pc = "stream"
    /\ Len(frames) = 2
    /\ ~hasTruncate
    /\ Len(ToolUseIds(lastRequest)) = 2
    /\ ToolUseIds(lastRequest)[1] # ToolUseIds(lastRequest)[2]
    /\ ResultIds(lastRequest) = ToolUseIds(lastRequest)

\* A step in which truncateEvents is called and fails.
TruncateFails == truncCalls' = truncCalls + 1 /\ pc' # "stream"

\* C22: when truncateEvents fails, in any iteration, the provider is not
\* invoked and no handler runs in that iteration, and the output stream
\* terminates with that TruncateEventsError as a typed failure, not as a
\* defect wrapped in UnknownException.
C22_TruncateFailureIsTypedAndFinal ==
    [][/\ TruncateFails =>
              /\ sig' = Fail("TruncateEventsError")
              /\ pc' = "settled"
              /\ providerCalls' = providerCalls
              /\ handlerLog' = handlerLog
              /\ out' = out
       /\ sig = Fail("TruncateEventsError") =>
              /\ pc' = "done"
              /\ term' = Fail("TruncateEventsError")
              /\ providerCalls' = providerCalls
              /\ handlerLog' = handlerLog]_vars

\* truncateEvents fails in the second iteration.
C22_Witness ==
    /\ pc = "done"
    /\ term = TruncateEventsError
    /\ Len(frames) = 1
    /\ truncCalls = 2
    /\ providerCalls = 1
    /\ Len(handlerLog) = 1

\* The tags of the events the loop adds to a thread.
ToolEventTags ==
    {"ToolUseEvent", "ToolResultSuccessEvent", "ToolResultErrorEvent"}

\* C23: the thread is append-only across iterations.  No step changes the
\* thread of the running iteration; the thread a recursion passes on is
\* the untruncated thread of the iteration, as a strict prefix, followed
\* only by ToolUseEvent and result events of tool calls of that
\* iteration's response.
C23_ThreadIsAppendOnly ==
    [][IF Recurses
           THEN /\ IsPrefix(events, events')
                /\ Len(events') > Len(events)
                /\ \A i \in (Len(events) + 1)..Len(events') :
                       /\ events'[i].tag \in ToolEventTags
                       /\ \E j \in DOMAIN response' :
                              /\ response'[j].tag = "ToolCall"
                              /\ response'[j].id = events'[i].id
           ELSE events' = events]_vars

\* The third iteration of a run with truncateEvents holds the caller's
\* message and the pairs of the two iterations before it.
C23_Witness ==
    /\ Len(frames) = 2
    /\ hasTruncate
    /\ Len(events) = 5
    /\ events[1] = UserMessage("hi")
    /\ events[2].id # events[4].id

\* C24: truncateEvents is applied once in every iteration, before the
\* provider call, to the whole thread of the iteration; the provider is
\* asked with the truncated thread, and the thread passed to the next
\* iteration is built from the untruncated one, so that truncation never
\* removes an event from the conversation.
C24_TruncationOnlyShapesTheRequest ==
    /\ [](hasTruncate =>
             truncCalls = providerCalls +
                 (IF sig = TruncateEventsError THEN 1 ELSE 0))
    /\ [](~hasTruncate => truncCalls = 0)
    /\ [][InvokesProvider =>
              /\ pc = "call"
              /\ events' = events
              /\ hasTruncate =>
                     /\ truncCalls' = truncCalls + 1
                     /\ lastRequest' = truncateEvents(events)
              /\ ~hasTruncate => lastRequest' = events]_vars
    /\ [][truncCalls' # truncCalls =>
              (pc = "call" /\ truncCalls' = truncCalls + 1)]_vars
    /\ [][Recurses => IsPrefix(events, events')]_vars

\* The second iteration asks the provider with a truncated thread while
\* its own thread still starts with the caller's message.
C24_Witness ==
    /\ hasTruncate
    /\ pc = "stream"
    /\ Len(frames) = 1
    /\ truncCalls = 2
    /\ Len(events) = 3
    /\ events[1] = UserMessage("hi")
    /\ lastRequest = Tail(events)

\* The last frame read is a delta or a stop that has no matching open
\* block in the frames before it.
StrayRead ==
    /\ vendor = "Anthropic"
    /\ Len(wire') = Len(wire) + 1
    /\ wire'[Len(wire')] \in AnthropicStrayFrames(wire)

\* The index of the last frame read was closed by a content_block_stop.
ClosedRead == StrayRead /\ wire'[Len(wire')].index \in Stopped(wire)

\* C25: in the Anthropic decoder a content_block_delta or content_block_stop
\* without a matching open block (index never started, block of the other
\* kind, block already closed) raises a defect: it emits nothing, and so a
\* closed block never gives a second Message or ToolCall.
C25_NoOpenBlockIsADefect ==
    [][StrayRead => (streamEnd' = Die("Error") /\ emitted' = emitted)]_vars

\* What the decoder does: the defect is raised for an index that was never
\* started and for a delta of the other kind, ...
C25_UnknownBlockIsADefect ==
    [][(StrayRead /\ ~ClosedRead) =>
           (streamEnd' = Die("Error") /\ emitted' = emitted)]_vars

\* ... while a closed block stays in `blocks`: a second stop emits its
\* Message or ToolCall again, and a delta of its kind is appended to it.
C25_ClosedBlockIsStillFound ==
    [][LET frame == wire'[Len(wire')]
       IN  (/\ ClosedRead
            /\ frame.kind \in {"", DeltaOf(StartOf(wire, frame.index).kind)})
               => /\ streamEnd' = NoSignal
                  /\ frame.type = "content_block_stop"
                         => Len(emitted') = Len(emitted) + 1]_vars

\* The entries of delta.tool_calls addressed to a tool-call index, in the
\* order of arrival.
EntriesFor(w, index) ==
    SelectSeq(Concat([k \in 1..Len(w) |->
                         IF IsChunk(w[k]) THEN w[k].tool_calls ELSE <<>>]),
              LAMBDA entry : entry.index = index)

\* The first id and the first name given for an index, and the argument
\* fragments sent for it.
FirstId(w, index) ==
    LET given == SelectSeq(EntriesFor(w, index), LAMBDA entry : entry.id # 0)
    IN  IF given = <<>> THEN 0 ELSE given[1].id

FirstName(w, index) ==
    LET given == SelectSeq(EntriesFor(w, index),
                           LAMBDA entry : entry.name # "")
    IN  IF given = <<>> THEN "" ELSE given[1].name

ArgumentsFor(w, index) ==
    Concat([k \in 1..Len(EntriesFor(w, index)) |->
               EntriesFor(w, index)[k].arguments])

\* The step reads a chunk that decodes and carries a finish reason.
FinishRead ==
    /\ vendor = "OpenAI"
    /\ Len(wire') = Len(wire) + 1
    /\ IsChunk(wire'[Len(wire')])
    /\ wire'[Len(wire')].finish_reason \in ChatCompletionFinishReason

\* The ToolCall events a step emits.
NewToolCalls == Tagged(SubSeq(emitted', Len(emitted) + 1, Len(emitted')),
                       "ToolCall")

\* Every ToolCall a finish chunk brings is the one of its index.
ToolCallsAreTheirIndexes ==
    /\ Len(NewToolCalls) = Len(partialToolCalls')
    /\ \A j \in 1..Len(NewToolCalls) :
           LET index == partialToolCalls'[j].index
           IN  NewToolCalls[j] = ToolCall(FirstId(wire', index),
                                          FirstName(wire', index),
                                          ArgumentsFor(wire', index))

\* C26: in the OpenAI decoder, whatever the chunks, the ToolCall emitted
\* for a tool-call index has the first id and the first name given for
\* that index and, as arguments, all the fragments sent for that index and
\* no other, concatenated in the order of arrival.
C26_ToolCallAccumulatesItsIndex ==
    [][FinishRead => ToolCallsAreTheirIndexes]_vars

\* No chunk read so far holds more than one entry in delta.tool_calls.
OneEntryChunks ==
    \A k \in 1..Len(wire) : IsChunk(wire[k]) => Len(wire[k].tool_calls) <= 1

\* What the decoder does: it reads the first entry of delta.tool_calls
\* alone, and the claim holds of responses whose chunks hold no other.
C26_FirstEntriesAccumulate ==
    [][(FinishRead /\ OneEntryChunks') => ToolCallsAreTheirIndexes]_vars

\* The step reads a chunk whose finish_reason is set.
FinishArrives ==
    /\ vendor = "OpenAI"
    /\ Len(wire') = Len(wire) + 1
    /\ IsChunk(wire'[Len(wire')])
    /\ wire'[Len(wire')].finish_reason # "null"

\* The events that flush the accumulated text and tool calls.
Flushed(message, partial) ==
    (IF message # <<>> THEN <<Message(message)>> ELSE <<>>)
    \o [j \in 1..Len(partial) |->
            ToolCall(partial[j].id, partial[j].name, partial[j].arguments)]

\* No tool call is emitted in two ToolCall events and no piece of text in
\* two Message events.
EmittedAtMostOnce ==
    LET calls == Tagged(emitted, "ToolCall")
        text == Concat([j \in 1..Len(Tagged(emitted, "Message")) |->
                           Tagged(emitted, "Message")[j].data.of])
    IN  /\ \A i, j \in 1..Len(calls) : calls[i].id = calls[j].id => i = j
        /\ \A i, j \in 1..Len(text) : text[i] = text[j] => i = j

\* C27: in the OpenAI decoder, a chunk with finish_reason set flushes the
\* accumulated text as a Message and every accumulated tool call as a
\* ToolCall and clears the accumulated text and tool calls, so that no
\* tool call and no piece of text is ever emitted twice.
C27_FinishFlushesAndClears ==
    /\ [][FinishArrives =>
              /\ emitted' = emitted \o Flushed(partialMessage,
                                               partialToolCalls)
              /\ partialMessage' = <<>>
              /\ partialToolCalls' = <<>>]_vars
    /\ [](vendor = "OpenAI" => EmittedAtMostOnce)

\* What the decoder does: a finish chunk that decodes flushes the text and
\* the tool calls and clears the text, ...
C27_FinishFlushes ==
    [][FinishRead =>
           /\ emitted' = emitted \o Flushed(partialMessage, partialToolCalls)
           /\ partialMessage' = <<>>]_vars

\* ... but the tool calls stay in the map, and the next finish chunk emits
\* them again.
C27_ToolCallsAreKept ==
    [][FinishRead => partialToolCalls' = partialToolCalls]_vars

\* In a response with one finish chunk nothing is emitted twice.
C27_OneFinishEmitsOnce ==
    vendor = "OpenAI" => EmittedAtMostOnce

\* C28 as stated: the Google decoder makes exactly one event of every part
\* of a frame's first candidate, function responses included, so that the
\* events are as many as the parts.
C28_OneEventPerPart ==
    vendor = "Google" => Len(emitted) = Len(PartsIn(wire))

\* The Text and FunctionCall parts of the response read so far.
SpokenParts ==
    SelectSeq(PartsIn(wire), LAMBDA part : part.kind # "FunctionResponse")

\* C28: the Google decoder keeps nothing from one frame to the next, and
\* makes of every Text part one Content with its text and of every
\* FunctionCall part one ToolCall with its name, its arguments and an id
\* of its own, in the order of the parts; a FunctionResponse part, and a
\* frame without a candidate, give no event.
C28_OneEventPerTextOrCall ==
    vendor = "Google" =>
        /\ Len(emitted) = Len(SpokenParts)
        /\ \A j \in 1..Len(emitted) :
               /\ emitted[j].tag = IF SpokenParts[j].kind = "Text"
                                       THEN "Content" ELSE "ToolCall"
               /\ emitted[j].name = SpokenParts[j].name
               /\ emitted[j].data.of = SpokenParts[j].text
        /\ \A i, j \in 1..Len(emitted) :
               (/\ emitted[i].tag = "ToolCall"
                /\ emitted[j].tag = "ToolCall"
                /\ emitted[i].id = emitted[j].id) => i = j

\* A frame of a text and a function call, a frame without a candidate and
\* a frame of a function response were read.
C28_Witness ==
    /\ vendor = "Google"
    /\ Len(wire) = 3
    /\ wire[1] = ContentResponse(<<>>)
    /\ Len(PartsIn(wire)) = 3
    /\ PartsIn(wire)[1].kind = "Text"
    /\ PartsIn(wire)[2].kind = "FunctionCall"
    /\ wire[3].candidates[1][1].kind = "FunctionResponse"
    /\ Len(emitted) = 2

UnrecognisedRead ==
    /\ Len(wire') = Len(wire) + 1
    /\ wire'[Len(wire')].type = "other shape"

\* C30: an event the decoder does not recognise, such as Anthropic's error
\* event, gives no stream event and no failure: the decoder skips it,
\* keeps what it has accumulated, and the stream ends normally with the
\* response.
C30_UnrecognisedEventIsIgnored ==
    /\ [][UnrecognisedRead =>
              /\ emitted' = emitted
              /\ streamEnd' = NoSignal
              /\ UNCHANGED <<blocks, partialMessage, partialToolCalls>>]_vars
    /\ []((\E i \in 1..Len(wire) : wire[i].type = "other shape")
              => streamEnd \in {NoSignal, End})

\* An Anthropic response with an unrecognised event between the start and
\* the stop of a text block came to its normal end.
C30_Witness ==
    /\ vendor = "Anthropic"
    /\ streamEnd = End
    /\ Len(wire) = 4
    /\ wire[1].type = "content_block_start"
    /\ wire[2].type = "other shape"
    /\ wire[3].type = "content_block_delta"
    /\ wire[4].type = "content_block_stop"
    /\ Len(emitted) = 3
    /\ emitted[3].tag = "Message"

\* What a decoder that starts with nothing makes of the frames.
RECURSIVE Replay(_, _)
Replay(v, w) ==
    IF w = <<>>
        THEN Run(<<>>, <<>>, <<>>, <<>>, <<>>)
        ELSE decodeFrame(v, Replay(v, SubSeq(w, 1, Len(w) - 1)), w[Len(w)])

C31_RecordedCallsAreOfThisIteration ==
    /\ [][Recurses => fnCalls' = <<>>]_vars
    /\ [](\A i \in 1..Len(fnCalls) :
              \E j \in 1..Len(response) :
                  /\ response[j].tag = "ToolCall"
                  /\ response[j].id = fnCalls[i].id)

Equivalent(v, toolCall) ==
    IF toolCall.kind = "name"
        THEN Choice(IF v = "Anthropic" THEN "tool"
                    ELSE IF v = "OpenAI" THEN "function" ELSE "Any",
                    toolCall.name)
    ELSE IF toolCall.kind = "auto"
        THEN Choice(IF v = "Google" THEN "Auto" ELSE "auto", "")
    ELSE IF toolCall.kind = "required"
        THEN Choice(IF v = "Anthropic" THEN "any"
                    ELSE IF v = "OpenAI" THEN "required" ELSE "Any", "")
    ELSE Choice(IF v = "Google" THEN "None" ELSE "none", "")

\* The stream of a call with both required parameters and a toolCall was
\* run.
ToolCallRun ==
    /\ params.toolCall # NoOption
    /\ \A k \in Required : fromNullable(mergeParams(defaultParams, params)[k])
    /\ (request # <<>> \/ streamEnd # NoSignal)

\* C32: every provider takes every ToolCallOption and builds the request
\* with the vendor's setting that stands for it; no option makes the
\* stream fail.
C32_EveryOptionIsTranslated ==
    ToolCallRun =>
        /\ streamEnd = NoSignal
        /\ request # <<>>
        /\ request[1].tool_choice = Equivalent(vendor, params.toolCall)

\* What the providers do: OpenAI and Google translate every option, and
\* Anthropic "required" and { name }; Anthropic's "auto" is sent as
\* "auto " and its "none" fails the stream.
C32_OthersAreTranslated ==
    (ToolCallRun /\ ~(vendor = "Anthropic" /\
                      params.toolCall.kind \in {"auto", "none"})) =>
        /\ streamEnd = NoSignal
        /\ request[1].tool_choice = Equivalent(vendor, params.toolCall)

C32_AnthropicAutoAndNone ==
    (ToolCallRun /\ vendor = "Anthropic") =>
        /\ params.toolCall.kind = "auto" =>
               request[1].tool_choice = Choice("auto ", "")
        /\ params.toolCall.kind = "none" =>
               streamEnd = UnknownException("InvalidToolCallOptionError")

\* The frames the parser has produced so far, in the order of the response.
Produced == [i \in 1..sseFed |-> i]

\* The frame stream of the queue variant has ended after the read of the
\* response ended normally.
QueueStreamEnded ==
    /\ sseKind = "queue"
    /\ sseExit = "success"
    /\ sseEnd = End

\* C33: in the queue variant, whatever the order of the steps of the reader
\* and of the consumer, the frame stream ends only after it has delivered
\* every frame the parser produced, once each and in the order produced;
\* the shutdown of the queue at the end of the read drops no frame that was
\* offered and not yet taken.
C33_ShutdownDiscardsNoFrame ==
    QueueStreamEnded => sseFrames = Produced

\* What the queue variant does: the frames delivered are the first of the
\* frames produced, once each and in order; the frames still queued at the
\* shutdown are never delivered.
C33_DeliveredIsAPrefix ==
    sseKind = "queue" =>
        /\ IsPrefix(sseFrames, Produced)
        /\ (QueueStreamEnded /\ sseReader # "running") =>
               Len(sseFrames) + Len(queue) = sseFed

C33_FramesLeftInQueue ==
    /\ QueueStreamEnded
    /\ queue # <<>>
    /\ Len(sseFrames) < sseFed

\* The elements of the iteration that delivered out[k]: from its StreamLoop
\* to out[k].
IterationUpTo(k) ==
    LET start == CHOOSE i \in 1..k :
                     /\ out[i] = StreamLoop
                     /\ \A j \in (i + 1)..k : out[j] # StreamLoop
    IN  SubSeq(out, start, k)

\* out[k] is the InvalidToolCall of a call of the response: the response
\* of its iteration had not ended.
RejectedInResponse(k) ==
    /\ out[k].tag = "InvalidToolCall"
    /\ Tagged(IterationUpTo(k), "StreamLoopEnd") = <<>>

\* The response of an iteration was given up at a rejected call: nothing
\* of the iteration follows the InvalidToolCall, and no handler ran, or
\* will run, for the calls the iteration had forwarded.
GivenUpAt(k) ==
    /\ k < Len(out) => out[k + 1] = StreamLoop
    /\ \A j \in DOMAIN IterationUpTo(k) :
           ~IsToolResult(IterationUpTo(k)[j])
    /\ \A j \in DOMAIN IterationUpTo(k) : \A h \in DOMAIN handlerLog :
           IsToolCall(IterationUpTo(k)[j]) =>
               handlerLog[h].id # IterationUpTo(k)[j].id

\* The pair onInvalidToolCall makes of the rejected call e.
RejectedPair(e) ==
    <<ToolUseEvent(e.id, e.name, parseJson(e.data.of)),
      ToolResultErrorEvent(e.id, e.name, ErrorMessage(Classify(e), e))>>

OutAs(tag, id) == {k \in DOMAIN out : out[k].tag = tag /\ out[k].id = id}

\* The ToolCall the InvalidToolCall e was made of.
CallOf(e) == ToolCall(e.id, e.name, e.data.of)

\* The handler of the call `id` failed with an InvalidToolCallError.
HandlerRejected(id) ==
    \E h \in DOMAIN handlerLog :
        /\ handlerLog[h].id = id
        /\ handlerLog[h].outcome = "InvalidToolCallError"

\* Every ToolResult of the output follows, in its own iteration, a ToolCall
\* of the same id and name, and no other ToolResult answers that call.
ResultsFollowTheirCall ==
    \A k \in DOMAIN out :
        IsToolResult(out[k]) =>
            /\ \E j \in DOMAIN IterationUpTo(k) :
                   /\ IsToolCall(IterationUpTo(k)[j])
                   /\ IterationUpTo(k)[j].id = out[k].id
                   /\ IterationUpTo(k)[j].name = out[k].name
            /\ \A j \in DOMAIN out :
                   (IsToolResult(out[j]) /\ out[j].id = out[k].id) => j = k

C35_WitnessHandler ==
    \E k \in DOMAIN out :
        /\ out[k].tag = "InvalidToolCall"
        /\ OutAs("ToolCall", out[k].id) # {}

\* The register effect of an iteration goes past its budget check.
PassesBudgetCheck ==
    /\ pc = "call"
    /\ ~BudgetExhausted(maxIterations)
    /\ pc' # "call"

\* An event of the provider's stream, as the loop forwards it.
IsProviderEvent(e) == e.tag \in {"Content", "ToolCall"}

\* The elements of the iteration of out[k] that follow out[k].
IterationAfter(k) ==
    LET later == {i \in (k + 1)..Len(out) : out[i] = StreamLoop}
        stop == IF later = {}
                    THEN Len(out) + 1
                    ELSE CHOOSE i \in later : \A j \in later : i <= j
    IN  SubSeq(out, k + 1, stop - 1)

\* The markers of the output are in their places: the output starts with
\* a StreamLoop, there is one StreamLoop per iteration that asked the
\* provider, a StreamLoopEnd is the only one of its iteration and follows
\* every event of the provider the iteration forwards, and every ToolResult
\* follows the StreamLoopEnd of its iteration.
MarkersInOrder ==
    /\ out # <<>> => out[1] = StreamLoop
    /\ Len(Tagged(out, "StreamLoop")) = providerCalls
    /\ \A k \in DOMAIN out :
           /\ out[k] = StreamLoopEnd =>
                  /\ Len(Tagged(IterationUpTo(k), "StreamLoopEnd")) = 1
                  /\ \A j \in DOMAIN IterationAfter(k) :
                         /\ ~IsProviderEvent(IterationAfter(k)[j])
                         /\ IterationAfter(k)[j] # StreamLoopEnd
           /\ IsToolResult(out[k]) =>
                  Len(Tagged(IterationUpTo(k), "StreamLoopEnd")) = 1

C36_DeliveredMarkersAreWellFormed ==
    /\ [][(PassesBudgetCheck /\ ~TruncateFails)
              => out' = Append(out, StreamLoop)]_vars
    /\ [][(PassesBudgetCheck /\ TruncateFails) => out' = out]_vars
    /\ [][(pc # "call" /\ out' # out) => Last(out') # StreamLoop]_vars
    /\ []MarkersInOrder

\* The budget ran out on the recursion of handleToolCalls: the stream of
\* the nested call has failed with MaxIterationsError.
ExhaustedAfterBatch ==
    /\ Terminal
    /\ sig = MaxIterationsError
    /\ frames # <<>>
    /\ Last(frames) = "handleToolCalls"

\* The last n elements of the output.
LastOut(n) == SubSeq(out, Len(out) - n + 1, Len(out))

\* C37: the budget is checked at the start of an iteration only.  With a
\* budget N >= 1, when the N-th response holds valid tool calls the
\* handlers of all of them run and their ToolResults are delivered, and
\* then the stream fails with MaxIterationsError: the register effect of
\* the next iteration fails without a request, so that the results of the
\* last batch never reach the provider.
C37_ExhaustionIsSeenByTheNextIteration ==
    /\ [](ExhaustedAfterBatch =>
              LET calls == Tagged(response, "ToolCall")
                  n == Len(calls)
              IN  /\ providerCalls = callerMaxIterations[1]
                  /\ n >= 1
                  /\ Len(handlerLog) >= n
                  /\ Len(out) >= n
                  /\ \A j \in 1..n :
                         /\ BatchLog(n)[j].id = calls[j].id
                         /\ BatchLog(n)[j].outcome \in {"success", "ToolError"}
                         /\ IsToolResult(LastOut(n)[j])
                         /\ LastOut(n)[j].id = calls[j].id
                         /\ \A i \in DOMAIN lastRequest :
                                lastRequest[i].id # calls[j].id
                  /\ pc = "done" => term = MaxIterationsError)
    /\ [][(pc = "call" /\ maxIterations = <<0>>) =>
              /\ sig' = MaxIterationsError
              /\ out' = out
              /\ handlerLog' = handlerLog
              /\ providerCalls' = providerCalls
              /\ lastRequest' = lastRequest]_vars
    /\ [][(pc = "tools" /\ maxIterations = <<1>>) => pc' = "handler"]_vars

\* Budget 2: the second response held two valid calls, both handlers ran,
\* and the stream has failed with MaxIterationsError.
C37_Witness ==
    /\ ExhaustedAfterBatch
    /\ pc = "done"
    /\ term = MaxIterationsError
    /\ callerMaxIterations = <<2>>
    /\ Len(Tagged(response, "ToolCall")) = 2
    /\ Len(handlerLog) = 3

\* The budget the loop holds in an iteration: the caller's maxIterations
\* less one per recursion, none when the caller passed none.
LoopBudget ==
    IF callerMaxIterations = <<>>
        THEN <<>>
        ELSE <<callerMaxIterations[1] - Len(frames)>>

\* C38: the budget of the loop is the maxIterations of the params passed to
\* streamTools and nothing else.  A maxIterations of the provider's
\* defaults is merged into the parameters inside provider.stream, and the
\* budget check and the decrement of the loop never read it: with a default
\* budget alone the loop never fails with MaxIterationsError.
C38_BudgetIsTheCallersAlone ==
    /\ [](maxIterations = LoopBudget)
    /\ [](request # <<>> =>
              request[1].maxIterations =
                  IF callerMaxIterations = <<>>
                      THEN defaultParams.maxIterations
                      ELSE ToString(callerMaxIterations[1]))
    /\ [](callerMaxIterations = <<>> =>
              /\ sig # MaxIterationsError
              /\ term # MaxIterationsError)
    /\ [][pc = "call" =>
              ((sig' = MaxIterationsError) <=> (LoopBudget = <<0>>))]_vars
    /\ [][Recurses => maxIterations' = Decrement(LoopBudget)]_vars

\* The provider's defaults hold a budget of 1 and the caller passed none:
\* the default was merged into the request, and the loop has asked the
\* provider three times and ended when the model asked for no tool.
C38_Witness ==
    /\ callerMaxIterations = <<>>
    /\ defaultParams.maxIterations = "1"
    /\ request # <<>>
    /\ request[1].maxIterations = "1"
    /\ providerCalls = 3
    /\ pc = "done"
    /\ term = End

\* Every tool call the response has streamed so far is among the ToolCalls
\* a finish chunk brings, with every fragment sent for its index.
EveryStreamedCallIsEmitted ==
    \A index \in Opened(wire') :
        \E j \in 1..Len(NewToolCalls) :
            NewToolCalls[j] = ToolCall(FirstId(wire', index),
                                       FirstName(wire', index),
                                       ArgumentsFor(wire', index))

\* C39: the OpenAI decoder loses no fragment of a tool call.  When the
\* delta.tool_calls of one chunk holds fragments for several indexes, each
\* goes to the entry of its own index, and at the finish every tool call
\* the vendor streamed is emitted as a ToolCall.
C39_NoFragmentIsLost ==
    [][FinishRead => EveryStreamedCallIsEmitted]_vars

\* What the decoder does: of the entries of one delta.tool_calls it reads
\* the first alone; no fragment is lost of a response whose chunks hold one
\* entry at most.
C39_FirstFragmentsAreKept ==
    [][(FinishRead /\ OneEntryChunks') => EveryStreamedCallIsEmitted]_vars

\* The entries behind the first of a delta.tool_calls never reach the
\* accumulated calls: a call opened by such an entry alone is missing.
C39_LaterEntriesAreDropped ==
    (wire # <<>> /\ IsChunk(Last(wire))) =>
        \A e \in 2..Len(Last(wire).tool_calls) :
            \A j \in 1..Len(partialToolCalls) :
                partialToolCalls[j].index # Last(wire).tool_calls[e].index

====
